---- MODULE Spec2Model ----
(***************************************************************************)
(* mark-port: a Markdown preview server with live reload.                  *)
(*                                                                         *)
(* Spec         the notification pipeline: FileWatcher.handleEvent and the *)
(*              GET /sse/changes handler (routes/sse.ts).                  *)
(* SpecContent  the GET /api/content handler (routes/api.ts) over a small  *)
(*              filesystem that changes while a request is in flight.      *)
(* SpecWatcher  FileWatcher's start and stop (watcher.ts) called in any    *)
(*              order while the watched directory changes.                 *)
(* SpecTree     buildFileTree (fileTree.ts) over the directory trees of a  *)
(*              bounded set, listed by readdir in different orders.        *)
(* SpecHeadings extractHeadings and parseMarkdown (markdown.ts) on the     *)
(*              same Markdown source.                                      *)
(* SpecProcess  the CLI action, createServer, a fault of the file watch,   *)
(*              signals and the process-level handlers.                    *)
(* SpecShutdown signals, uncaught exceptions and unhandled rejections, and  *)
(*              the cleanup they start, step by step.                      *)
(* SpecClient   the browser client: loadFile, the fileChange handler and   *)
(*              the EventSource with its reconnect timer.                  *)
(* SpecAgree    the tree endpoint and the content endpoint in directory    *)
(*              mode over one filesystem.                                  *)
(* SpecAssets   rewriteAssetPaths (routes/api.ts) on one <img> tag.        *)
(* SpecRender   parseMarkdown (markdown.ts) called by several requests,    *)
(*              all of them sharing the module-level headings array.       *)
(*                                                                         *)
(* Strings of the program are sequences of one-character strings, so that  *)
(* startsWith, endsWith, includes, split and path normalisation are         *)
(* computed character by character as the code computes them.              *)
(***************************************************************************)
EXTENDS Integers, Sequences, FiniteSets, TLC

VARIABLES
    \* ---- notification pipeline (server.ts, watcher.ts, routes/sse.ts)
    watcher,      \* createServer's `watcher`: "null" or "FileWatcher"
    listeners,    \* the EventEmitter's listeners of 'change', in registration order
    connState,    \* per connection: "idle" (no request yet), "open", "closed"
    stream,       \* per connection: what reply.raw.write has been given, in order
    heartbeat,    \* per connection: whether its setInterval timer is live
    emitted,      \* history: every event handleEvent has emitted, in order
    regAt,        \* history: Len(emitted) when the connection's listener was registered
    closedAt,     \* history: Len(emitted) when the connection's close signal fired
    beats,        \* history: heartbeat ticks so far (bounds the model)
    \* ---- content endpoint (routes/api.ts, fileTree.ts fileExists)
    ctx,          \* the AppContext: mode, basePath, targetPath
    fs,           \* the filesystem: path -> "file" | "dir" for the entries that exist
    req,          \* the request in flight: its position in the handler and its locals
    access,       \* history: the filesystem calls the request has made, in order
    \* ---- content renderer (markdown.ts)
    headings,     \* the module-level `headings` array shared by every parseMarkdown call
    rcall,        \* per render call: its position, its input, its returned heading list
    thread,       \* the call whose synchronous code is running, 0 when the loop is free
    \* ---- watcher lifecycle (watcher.ts start, stop)
    fsWatcher,    \* FileWatcher's `this.watcher`: 0 for null, else the handle it refers to
    handles,      \* per watch handle: "unused", "open", "closing" or "closed"
    stops,        \* per stop() call: its position and the handle it is closing
    lastChange,   \* history: the latest filesystem change and what had been emitted before
    quiet,        \* history: a stop() has completed and start() was not called since
    \* ---- asset rewriting (routes/api.ts rewriteAssetPaths)
    img,          \* one <img> tag of the rendered HTML: its src before and after
    \* ---- tree builder (fileTree.ts buildFileTree)
    disk,         \* the directory tree on disk: its entries, each with its directory
    listing,      \* the order in which readdir returns the entries of a directory
    built,        \* history: the trees buildFileTree returned, each with the listing order it met
    \* ---- the two heading extractions (markdown.ts)
    source,       \* a Markdown source, as its lines
    extracted,    \* what extractHeadings returned for it
    rendered,     \* the headings parseMarkdown returned for it
    \* ---- the process (CLI action, createServer)
    proc,         \* where the process is, its options and how it ended
    served,       \* history: the API requests answered
    \* ---- shutdown (CLI action: shutdown, process handlers; server.ts cleanup)
    isShuttingDown, \* the flag of shutdown()
    cleanups,     \* the calls of cleanup() so far: cause, exit code, position
    app,          \* the Fastify server: "none", "listening", "closing" or "closed"
    exitCode,     \* what process.exit was called with, -1 while the process runs
    \* ---- browser client (public/app.js: loadFile, setupSSE)
    currentFile,  \* the client's `currentFile`: <<>> for null, else a path
    shown,        \* the content pane: nothing, a file's content or an error
    loads,        \* the loadFile calls so far: file, cause, position, outcome
    eventSources, \* per EventSource: "none", "connecting", "open" or "closed"
    eventSource,  \* the client's `eventSource`: the EventSource made last, 0 for null
    timers,       \* the reconnect timers pending
    lastMsg       \* history: the last fileChange message handled and what it led to

sseVars == <<watcher, listeners, connState, stream, heartbeat, emitted, regAt, closedAt, beats>>
contentVars == <<ctx, fs, req, access>>
renderVars == <<headings, rcall, thread>>
watchVars == <<fsWatcher, handles, stops, lastChange, quiet>>
assetVars == <<img>>
treeVars == <<disk, listing, built>>
slugVars == <<source, extracted, rendered>>
procVars == <<proc, served>>
downVars == <<isShuttingDown, cleanups, app, exitCode>>
clientVars == <<currentFile, shown, loads, eventSources, eventSource, timers, lastMsg>>
restVars == <<assetVars, treeVars, slugVars, procVars, downVars, clientVars>>
vars == <<sseVars, contentVars, renderVars, watchVars, restVars>>

\* What the actions of one part of the program leave alone.
outsideSse == <<contentVars, renderVars, watchVars, restVars>>
outsideContent == <<sseVars, renderVars, watchVars, restVars>>
outsideRender == <<sseVars, contentVars, watchVars, restVars>>
\* start, stop and the watch callbacks reach the listeners' streams
outsideWatch ==
    <<contentVars, renderVars, restVars,
      watcher, listeners, connState, heartbeat, regAt, closedAt, beats>>
outsideAsset == <<sseVars, contentVars, renderVars, watchVars, treeVars, slugVars, procVars, downVars, clientVars>>
outsideTree == <<sseVars, contentVars, renderVars, watchVars, assetVars, slugVars, procVars, downVars, clientVars>>
outsideSlug == <<sseVars, contentVars, renderVars, watchVars, assetVars, treeVars, procVars, downVars, clientVars>>
outsideDown ==
    <<clientVars, contentVars, renderVars, assetVars, treeVars, slugVars, procVars,
      watcher, listeners, connState, stream, heartbeat, emitted, regAt, closedAt, beats,
      stops, lastChange, quiet>>
outsideClient == <<sseVars, contentVars, renderVars, watchVars, assetVars, treeVars, slugVars, procVars, downVars>>
outsideProc ==
    <<contentVars, renderVars, clientVars, downVars, assetVars, treeVars, slugVars,
      listeners, connState, stream, heartbeat, emitted, regAt, closedAt, beats,
      stops, lastChange, quiet>>

(***************************************************************************)
(* Bounds of the model.                                                    *)
(***************************************************************************)
MaxConns == 2
MaxEvents == 2
MaxBeats == 1
MaxFileLen == 4
MaxRenders == 2
MaxStarts == 2
MaxStops == 2
MaxSrcLen == 3
MaxEntries == 4
MaxBuilds == 2
MaxLines == 3
MaxRequests == 2
MaxTriggers == 2
MaxLoads == 2
MaxSources == 3
MaxMessages == 1

Conns == 1..MaxConns
Renders == 1..MaxRenders
Handles == 1..MaxStarts
StopCalls == 1..MaxStops

(***************************************************************************)
(* String helpers: String.prototype.startsWith / endsWith / includes /     *)
(* toLowerCase / split / join over sequences of characters.                *)
(***************************************************************************)
StartsWith(s, p) ==
    /\ Len(p) <= Len(s)
    /\ SubSeq(s, 1, Len(p)) = p

EndsWith(s, p) ==
    /\ Len(p) <= Len(s)
    /\ SubSeq(s, Len(s) - Len(p) + 1, Len(s)) = p

Includes(s, p) ==
    \E i \in 1..(Len(s) - Len(p) + 1) : SubSeq(s, i, i + Len(p) - 1) = p

LowerChar(c) ==
    CASE c = "M" -> "m"
      [] c = "D" -> "d"
      [] c = "B" -> "b"
      [] c = "A" -> "a"
      [] OTHER -> c

ToLowerCase(s) == [i \in 1..Len(s) |-> LowerChar(s[i])]

RECURSIVE SplitFrom(_, _, _)
\* s.split('/'): the segments between separators, empty ones included
SplitFrom(s, i, cur) ==
    IF i > Len(s) THEN <<cur>>
    ELSE IF s[i] = "/" THEN <<cur>> \o SplitFrom(s, i + 1, <<>>)
    ELSE SplitFrom(s, i + 1, Append(cur, s[i]))

Split(s) == SplitFrom(s, 1, <<>>)

RECURSIVE Join(_)
\* segs.join('/')
Join(segs) ==
    IF Len(segs) = 0 THEN <<>>
    ELSE IF Len(segs) = 1 THEN segs[1]
    ELSE segs[1] \o <<"/">> \o Join(Tail(segs))

RECURSIVE NonEmpty(_)
NonEmpty(segs) ==
    IF Len(segs) = 0 THEN <<>>
    ELSE IF segs[1] = <<>> THEN NonEmpty(Tail(segs))
    ELSE <<segs[1]>> \o NonEmpty(Tail(segs))

(***************************************************************************)
(* node:path (posix): normalizeString, normalize, join, resolve, relative. *)
(***************************************************************************)
DotDot == <<".", ".">>

RECURSIVE NormalizeString(_, _, _)
\* the segment walk of normalizeString: '' and '.' are skipped, '..' pops the
\* last segment unless there is none or it is '..' itself, and is then kept
\* only when allowAboveRoot
NormalizeString(segs, res, allowAboveRoot) ==
    IF Len(segs) = 0 THEN res
    ELSE LET s == Head(segs) IN
         IF s = <<>> \/ s = <<".">>
         THEN NormalizeString(Tail(segs), res, allowAboveRoot)
         ELSE IF s = DotDot
         THEN IF Len(res) > 0 /\ res[Len(res)] # DotDot
              THEN NormalizeString(Tail(segs), SubSeq(res, 1, Len(res) - 1), allowAboveRoot)
              ELSE IF allowAboveRoot
              THEN NormalizeString(Tail(segs), Append(res, DotDot), allowAboveRoot)
              ELSE NormalizeString(Tail(segs), res, allowAboveRoot)
         ELSE NormalizeString(Tail(segs), Append(res, s), allowAboveRoot)

Normalize(path) ==
    IF Len(path) = 0 THEN <<".">>
    ELSE LET isAbsolute == path[1] = "/"
             trailingSeparator == path[Len(path)] = "/"
             p == Join(NormalizeString(Split(path), <<>>, ~isAbsolute))
         IN  IF Len(p) = 0
             THEN IF isAbsolute THEN <<"/">>
                  ELSE IF trailingSeparator THEN <<".", "/">> ELSE <<".">>
             ELSE (IF isAbsolute THEN <<"/">> ELSE <<>>) \o p
                  \o (IF trailingSeparator THEN <<"/">> ELSE <<>>)

\* join(a, b): the non-empty arguments joined by '/', then normalized
PathJoin(a, b) ==
    LET joined == IF Len(a) = 0 THEN b
                  ELSE IF Len(b) = 0 THEN a
                  ELSE a \o <<"/">> \o b
    IN  IF Len(joined) = 0 THEN <<".">> ELSE Normalize(joined)

\* process.cwd(), used by resolve only when no argument is absolute
Cwd == <<"/", "c", "w", "d">>

RECURSIVE ResolveAcc(_, _)
\* resolve's right-to-left walk: prepend arguments until one is absolute
ResolveAcc(paths, acc) ==
    IF Len(paths) = 0 THEN Cwd \o <<"/">> \o acc
    ELSE LET p == paths[Len(paths)]
             front == SubSeq(paths, 1, Len(paths) - 1)
         IN  IF Len(p) = 0 THEN ResolveAcc(front, acc)
             ELSE IF p[1] = "/" THEN p \o <<"/">> \o acc
             ELSE ResolveAcc(front, p \o <<"/">> \o acc)

Resolve(paths) ==
    <<"/">> \o Join(NormalizeString(Split(ResolveAcc(paths, <<>>)), <<>>, FALSE))

RECURSIVE CommonLen(_, _)
CommonLen(a, b) ==
    IF Len(a) = 0 \/ Len(b) = 0 \/ Head(a) # Head(b) THEN 0
    ELSE 1 + CommonLen(Tail(a), Tail(b))

RelativeAbsolute(from, to) == to

\* relative(from, to): '..' for every segment of from past the common prefix,
\* then the rest of to
Relative(from, to) ==
    LET f == NonEmpty(Split(Resolve(<<from>>)))
        t == NonEmpty(Split(Resolve(<<to>>)))
        k == CommonLen(f, t)
    IN  Join([i \in 1..(Len(f) - k) |-> DotDot] \o SubSeq(t, k + 1, Len(t)))

(***************************************************************************)
(* The AppContext (types.ts) and the paths of the model.                   *)
(***************************************************************************)
Root == <<"/", "r">>

DirContext == [mode |-> "directory", basePath |-> Root, targetPath |-> <<".">>]

\* the paths the OS watch reports: /r/a.md, /r/d/B.MD, /r/n.txt
WatchedAMd == <<"/", "r", "/", "a", ".", "m", "d">>
WatchedBMd == <<"/", "r", "/", "d", "/", "B", ".", "M", "D">>
WatchedTxt == <<"/", "r", "/", "n", ".", "t", "x", "t">>

\* the (type, path) pairs chokidar hands to the three callbacks of start()
FsEvents ==
    { <<"change", WatchedAMd>>, <<"add", WatchedBMd>>,
      <<"unlink", WatchedAMd>>, <<"change", WatchedTxt>> }

(***************************************************************************)
(* FileWatcher (watcher.ts).                                               *)
(***************************************************************************)
IsMarkdownFileAny(filename) == TRUE

IsMarkdownFile(filename) ==
    LET ext == ToLowerCase(filename)
    IN  \/ EndsWith(ext, <<".", "m", "d">>)
        \/ EndsWith(ext, <<".", "m", "a", "r", "k", "d", "o", "w", "n">>)

FileChangeEventAbsolute(type, filePath) == [type |-> type, file |-> filePath]

\* the event handleEvent builds for a Markdown path
FileChangeEvent(type, filePath) ==
    [type |-> type, file |-> Relative(ctx.basePath, filePath)]

(***************************************************************************)
(* The messages of GET /sse/changes (routes/sse.ts).                       *)
(***************************************************************************)
\* JSON.stringify of a FileChangeEvent: its properties, in insertion order
JsonStringify(event) == << <<"type", event.type>>, <<"file", event.file>> >>

ConnectedMsg == [event |-> "connected", data |-> <<>>]

HeartbeatMsg == [event |-> "heartbeat", data |-> <<>>]

\* what onFileChange writes for an event
FileChangeMsg(event) == [event |-> "fileChange", data |-> JsonStringify(event)]

\* mutant: the acknowledgement is never written
GreetingMissing == <<>>

\* mutant: the events emitted so far are replayed to the new connection
GreetingReplay ==
    <<ConnectedMsg>> \o [i \in 1..Len(emitted) |-> FileChangeMsg(emitted[i])]

\* the stream once the handler has written the head and the acknowledgement
Greeting == <<ConnectedMsg>>

\* mutant: the listener is registered twice
OnTwice(ls, c) == ls \o <<c, c>>

\* EventEmitter.on: the listener is appended
On(ls, c) == Append(ls, c)

RECURSIVE Without(_, _)
Without(ls, c) ==
    IF Len(ls) = 0 THEN <<>>
    ELSE IF Head(ls) = c THEN Without(Tail(ls), c)
    ELSE <<Head(ls)>> \o Without(Tail(ls), c)

\* mutant: the close handler leaves the listener registered
OffNothing(ls, c) == ls

\* mutant: the close handler removes every listener of the topic
OffAll(ls, c) == <<>>

\* EventEmitter.off: the listener is removed
Off(ls, c) == Without(ls, c)

\* mutant: the close handler leaves the timer running
ClearIntervalForgotten(hb, c) == hb

\* clearInterval(heartbeat)
ClearInterval(hb, c) == [hb EXCEPT ![c] = FALSE]

RECURSIVE EmitFrom(_, _, _, _)
EmitFrom(ls, i, st, event) ==
    IF i > Len(ls) THEN st
    ELSE EmitFrom(ls, i + 1,
                  [st EXCEPT ![ls[i]] = Append(st[ls[i]], FileChangeMsg(event))],
                  event)

\* mutant: the emission stops after the first listener
EmitToFirst(ls, st, event) == EmitFrom(IF ls = <<>> THEN ls ELSE <<ls[1]>>, 1, st, event)

\* this.emit('change', event): every listener is called once, in registration
\* order, and each writes one fileChange message to its own stream
Emit(ls, st, event) == EmitFrom(ls, 1, st, event)

(***************************************************************************)
(* The content endpoint's filesystem and request record (routes/api.ts).   *)
(***************************************************************************)
PathA == <<"/", "r", "/", "a">>
PathAA == <<"/", "r", "/", "a", "a">>
PathAAA == <<"/", "r", "/", "a", "a", "/", "a">>
PathSibling == <<"/", "r", "a">>
PathOther == <<"/", "a">>
PathLink == <<"/", "r", "/", "a", "a", "a">>

\* the filesystem at startup: the root /r holding the file a, the directory aa
\* with the file aa/a, and the symbolic link aaa to /a; beside the root, the
\* files /ra and /a
InitFs ==
    (Root :> "dir") @@ (PathA :> "file") @@ (PathAA :> "dir")
    @@ (PathAAA :> "file") @@ (PathLink :> "link")
    @@ (PathSibling :> "file") @@ (PathOther :> "file")

\* where the symbolic link points
LinkTarget(path) == PathOther

NoQuery == [given |-> FALSE, value |-> <<>>]

IdleReq ==
    [pc |-> "idle", query |-> NoQuery, normalizedPath |-> <<>>,
     resolvedPath |-> <<>>, status |-> 0, error |-> "", file |-> <<>>, raw |-> <<>>]

\* a render call that has not been made, and the renderer before any call
NoResult == [alias |-> FALSE, value |-> <<>>]

IdleCall == [pc |-> "idle", content |-> <<>>, pos |-> 0, result |-> NoResult]

RenderIdle ==
    /\ headings = <<>>
    /\ rcall = [r \in Renders |-> IdleCall]
    /\ thread = 0

\* a FileWatcher just constructed: this.watcher = null, no stop() under way
NoChange == [type |-> "none", path |-> <<>>, started |-> FALSE, before |-> 0]

IdleStop == [pc |-> "idle", target |-> 0]

WatcherIdle ==
    /\ fsWatcher = 0
    /\ handles = [h \in Handles |-> "unused"]
    /\ stops = [s \in StopCalls |-> IdleStop]
    /\ lastChange = NoChange
    /\ quiet = FALSE

\* no tag has been handed to rewriteAssetPaths
NoImg == [pc |-> "none", fileDir |-> <<>>, src |-> <<>>, out |-> <<>>]

AssetIdle == img = NoImg

\* an entry of a directory: the directory's path, the entry's name and kind
\* ("file", "dir", or "link" for a symbolic link), and its place among all
\* entries in the order readdir lists them
Entry(dir, name, kind, rank) == [dir |-> dir, name |-> name, kind |-> kind, rank |-> rank]

DirD == <<"/", "r", "/", "d">>
DirH == <<"/", "r", "/", ".", "h">>
DirDist == <<"/", "r", "/", "d", "i", "s", "t">>
DirModules == <<"/", "r", "/", "n", "o", "d", "e", "_", "m", "o", "d", "u", "l", "e", "s">>

NameAMd == <<"a", ".", "m", "d">>
NameBMd == <<"B", ".", "M", "D">>
NameMarkdown == <<"c", ".", "m", "a", "r", "k", "d", "o", "w", "n">>
NameTxt == <<"n", ".", "t", "x", "t">>

\* the directory the watcher's changes happen in: the root holds a.md,
\* adist.md, c.markdown, n.txt and the directories .h, d, dist and
\* node_modules; d holds B.MD and each of the others holds a.md
WatchedDir ==
    { Entry(Root, NameTxt, "file", 1),
      Entry(Root, NameMarkdown, "file", 2),
      Entry(Root, <<"d">>, "dir", 3),
      Entry(Root, NameAMd, "file", 4),
      Entry(Root, <<".", "h">>, "dir", 5),
      Entry(Root, <<"d", "i", "s", "t">>, "dir", 6),
      Entry(Root, <<"a", "d", "i", "s", "t", ".", "m", "d">>, "file", 7),
      Entry(Root, <<"n", "o", "d", "e", "_", "m", "o", "d", "u", "l", "e", "s">>, "dir", 8),
      Entry(DirD, NameBMd, "file", 9),
      Entry(DirH, NameAMd, "file", 10),
      Entry(DirDist, NameAMd, "file", 11),
      Entry(DirModules, NameAMd, "file", 12) }

TreeIdle ==
    /\ disk = WatchedDir
    /\ listing = "forward"
    /\ built = <<>>

\* neither extraction has been called
NoHeadings == [done |-> FALSE, list |-> <<>>]

SlugIdle ==
    /\ source = <<>>
    /\ extracted = NoHeadings
    /\ rendered = NoHeadings

\* the process as the tests run the modules: no CLI action has run
NoProcess ==
    [state |-> "none", watch |-> FALSE, handlers |-> FALSE, fault |-> "none", code |-> -1]

ProcIdle ==
    /\ proc = NoProcess
    /\ served = <<>>

\* no CLI action has run: nothing to shut down
DownIdle ==
    /\ isShuttingDown = FALSE
    /\ cleanups = <<>>
    /\ app = "none"
    /\ exitCode = -1

\* no page has been opened
NoPane == [kind |-> "none", file |-> <<>>]

NoMsg == [seen |-> 0, type |-> "none", file |-> <<>>, current |-> <<>>, pane |-> NoPane, did |-> "none"]

ClientIdle ==
    /\ currentFile = <<>>
    /\ shown = NoPane
    /\ loads = <<>>
    /\ eventSources = [e \in 1..MaxSources |-> "none"]
    /\ eventSource = 0
    /\ timers = 0
    /\ lastMsg = NoMsg

RestIdle == AssetIdle /\ TreeIdle /\ SlugIdle /\ ProcIdle /\ DownIdle /\ ClientIdle

(***************************************************************************)
(* The notification pipeline: createServer and GET /sse/changes.           *)
(***************************************************************************)
\* createServer: context.options.watch decides whether a FileWatcher exists;
\* it is started at once on the base path
InitSse ==
    /\ watcher \in {"null", "FileWatcher"}
    /\ listeners = <<>>
    /\ connState = [c \in Conns |-> "idle"]
    /\ stream = [c \in Conns |-> <<>>]
    /\ heartbeat = [c \in Conns |-> FALSE]
    /\ emitted = <<>>
    /\ regAt = [c \in Conns |-> 0]
    /\ closedAt = [c \in Conns |-> 0]
    /\ beats = 0

\* GET /sse/changes: the handler has no await, so it runs to its end in one
\* step: head and acknowledgement written, timer set, listener registered,
\* close handler installed. Connections are numbered in order of arrival.
OpenChannel(c) ==
    /\ connState[c] = "idle"
    /\ \A d \in Conns : d < c => connState[d] # "idle"
    /\ connState' = [connState EXCEPT ![c] = "open"]
    /\ stream' = [stream EXCEPT ![c] = Greeting]
    /\ heartbeat' = [heartbeat EXCEPT ![c] = TRUE]
    /\ listeners' = IF watcher # "null" THEN On(listeners, c) ELSE listeners
    /\ regAt' = [regAt EXCEPT ![c] = Len(emitted)]
    /\ UNCHANGED <<watcher, emitted, closedAt, beats>>
    /\ UNCHANGED outsideSse

\* the setInterval callback of a connection
Tick(c) ==
    /\ heartbeat[c]
    /\ beats < MaxBeats
    /\ stream' = [stream EXCEPT ![c] = Append(stream[c], HeartbeatMsg)]
    /\ beats' = beats + 1
    /\ UNCHANGED <<watcher, listeners, connState, heartbeat, emitted, regAt, closedAt>>
    /\ UNCHANGED outsideSse

\* request.raw's 'close' handler
CloseChannel(c) ==
    /\ connState[c] = "open"
    /\ connState' = [connState EXCEPT ![c] = "closed"]
    /\ heartbeat' = ClearInterval(heartbeat, c)
    /\ listeners' = IF watcher # "null" THEN Off(listeners, c) ELSE listeners
    /\ closedAt' = [closedAt EXCEPT ![c] = Len(emitted)]
    /\ UNCHANGED <<watcher, stream, emitted, regAt, beats>>
    /\ UNCHANGED outsideSse

\* FileWatcher.handleEvent, called by the watch callbacks of start()
HandleEvent(type, filePath) ==
    /\ watcher # "null"
    /\ Len(emitted) < MaxEvents
    /\ IF ~IsMarkdownFile(filePath)
       THEN UNCHANGED <<stream, emitted>>
       ELSE LET event == FileChangeEvent(type, filePath)
            IN  /\ stream' = Emit(listeners, stream, event)
                /\ emitted' = Append(emitted, event)
    /\ UNCHANGED <<watcher, listeners, connState, heartbeat, regAt, closedAt, beats>>
    /\ UNCHANGED outsideSse

Next ==
    \/ \E c \in Conns : OpenChannel(c)
    \/ \E c \in Conns : Tick(c)
    \/ \E c \in Conns : CloseChannel(c)
    \/ \E e \in FsEvents : HandleEvent(e[1], e[2])

Init ==
    /\ InitSse
    /\ ctx = DirContext
    /\ fs = InitFs
    /\ req = IdleReq
    /\ access = <<>>
    /\ RenderIdle
    /\ WatcherIdle
    /\ RestIdle

Spec == Init /\ [][Next]_vars

(***************************************************************************)
(* Claims about the notification pipeline, checked under Spec.             *)
(***************************************************************************)
\* the fileChange messages of a stream, in the order they were written
FileChanges(st) == SelectSeq(st, LAMBDA m : m.event = "fileChange")

\* the value JSON.parse would give for a key of a written data payload
Field(data, key) == data[CHOOSE i \in 1..Len(data) : data[i][1] = key][2]

\* a message is the fileChange message of an event: its type and its file
Carries(m, event) ==
    /\ m.event = "fileChange"
    /\ Len(m.data) = 2
    /\ Field(m.data, "type") = event.type
    /\ Field(m.data, "file") = event.file

Registered(ls, c) == \E i \in 1..Len(ls) : ls[i] = c

OpenConns == {c \in Conns : connState[c] = "open"}

\* C1: on every connection the first message written is the `connected`
\* acknowledgement: a connection that has been opened has a non-empty stream
\* whose head is `connected`, so no fileChange and no heartbeat precedes it.
C1_ConnectedFirst ==
    \A c \in Conns :
        /\ connState[c] # "idle" => Len(stream[c]) > 0
        /\ Len(stream[c]) > 0 => stream[c][1] = ConnectedMsg

\* C1 witness: a stream holding the acknowledgement, a heartbeat and a fileChange.
C1_Witness ==
    \E c \in Conns :
        /\ Len(stream[c]) >= 3
        /\ \E i \in 1..Len(stream[c]) : stream[c][i] = HeartbeatMsg
        /\ Len(FileChanges(stream[c])) > 0

\* C2: while a channel is connected (listener registered, not closed), the
\* fileChange messages on it are exactly the events the watcher has emitted
\* since its registration: one message per event, carrying the event's type
\* and file, in emission order.
C2_RelayedOnceInOrder ==
    \A c \in Conns :
        (connState[c] = "open" /\ watcher # "null") =>
            LET fc == FileChanges(stream[c])
            IN  /\ Len(fc) = Len(emitted) - regAt[c]
                /\ \A i \in 1..Len(fc) : Carries(fc[i], emitted[regAt[c] + i])

\* C2 witness: an open channel that has relayed two different events.
C2_Witness ==
    \E c \in Conns :
        /\ connState[c] = "open"
        /\ Len(FileChanges(stream[c])) = 2
        /\ emitted[regAt[c] + 1] # emitted[regAt[c] + 2]

\* C3: once a channel's close signal has fired, its listener is not registered
\* and its timer is not live, and nothing more is ever written to its stream.
C3_ClosedChannelSilent ==
    [][\A c \in Conns :
          /\ connState'[c] = "closed" =>
                (~heartbeat'[c] /\ ~Registered(listeners', c))
          /\ connState[c] = "closed" => stream'[c] = stream[c]]_vars

\* C3 witness: a closed channel, an event emitted after its close and relayed
\* to another channel, and a heartbeat written to that other channel.
C3_Witness ==
    \E c, d \in Conns :
        /\ connState[c] = "closed"
        /\ Len(emitted) > closedAt[c]
        /\ connState[d] = "open"
        /\ Len(FileChanges(stream[d])) > 0
        /\ \E i \in 1..Len(stream[d]) : stream[d][i] = HeartbeatMsg

\* C4: the listeners registered on the watcher are exactly the open channels,
\* one each; with every channel closed there are none.
C4_ListenersAreOpenChannels ==
    watcher # "null" =>
        /\ Len(listeners) = Cardinality(OpenConns)
        /\ \A c \in Conns : Registered(listeners, c) <=> c \in OpenConns

\* C4 witness: every connection was opened and closed, and no listener is left.
C4_Witness ==
    /\ watcher # "null"
    /\ \A c \in Conns : connState[c] = "closed"
    /\ Len(emitted) > 0
    /\ Len(listeners) = 0

\* C5: an emission appends exactly the event's fileChange message to every
\* channel that is open when it happens; closing a channel changes neither the
\* registration nor the stream of any other channel.
C5_EveryOpenChannelIndependent ==
    [][/\ Len(emitted') = Len(emitted) + 1 =>
            \A c \in OpenConns :
                /\ Len(stream'[c]) = Len(stream[c]) + 1
                /\ SubSeq(stream'[c], 1, Len(stream[c])) = stream[c]
                /\ Carries(stream'[c][Len(stream'[c])], emitted'[Len(emitted')])
       /\ \A c \in Conns :
            (connState[c] = "open" /\ connState'[c] = "closed") =>
                \A d \in Conns \ {c} :
                    /\ Registered(listeners', d) <=> Registered(listeners, d)
                    /\ stream'[d] = stream[d]]_vars

\* C5 witness: two channels received the first event, one was closed, and the
\* other received the second event.
C5_Witness ==
    \E c, d \in Conns :
        /\ connState[c] = "closed"
        /\ connState[d] = "open"
        /\ Len(FileChanges(stream[c])) = 1
        /\ Len(FileChanges(stream[d])) = 2

\* C6: a channel (open or closed) holds no fileChange message for an event
\* emitted before its listener was registered: its fileChange messages are the
\* events that follow its registration, none more.
C6_NoReplay ==
    \A c \in Conns :
        LET fc == FileChanges(stream[c])
        IN  /\ Len(fc) <= Len(emitted) - regAt[c]
            /\ \A i \in 1..Len(fc) : Carries(fc[i], emitted[regAt[c] + i])

\* C6 witness: a channel registered after the first event that has received
\* the second event and only that one.
C6_Witness ==
    \E c \in Conns :
        /\ connState[c] # "idle"
        /\ regAt[c] = 1
        /\ Len(emitted) = 2
        /\ Len(FileChanges(stream[c])) = 1

Contexts ==
    { DirContext,
      [mode |-> "file", basePath |-> Root, targetPath |-> <<"a">>],
      [mode |-> "file", basePath |-> Root, targetPath |-> <<".", ".", "/", "r", "a">>],
      [mode |-> "file", basePath |-> Root, targetPath |-> PathOther] }

Alphabet == {"a", ".", "/"}

\* request.query: no `file` key, or a string of at most MaxFileLen characters
Queries ==
    {NoQuery} \cup
    { [given |-> TRUE, value |-> v] :
        v \in UNION { [1..n -> Alphabet] : n \in 0..MaxFileLen } }

\* the entry a filesystem call on a path reaches: stat and readFile follow a
\* symbolic link, while resolve() (line 76) works on the path's text alone
RealPath(path) ==
    IF path \in DOMAIN fs /\ fs[path] = "link" THEN LinkTarget(path) ELSE path

\* what stat / readFile find at a path
Kind(path) ==
    LET real == RealPath(path)
    IN  IF real \in DOMAIN fs THEN fs[real] ELSE "absent"

\* the text of a file, identified by the file it is the text of
TextOf(path) == <<"text of", path>>

\* mutant: the check forgets paths that start from the root
IsInvalidPathNoRoot(normalizedPath) == Includes(normalizedPath, DotDot)

\* line 67: normalizedPath.includes('..') || normalizedPath.startsWith('/')
IsInvalidPath(normalizedPath) ==
    \/ Includes(normalizedPath, DotDot)
    \/ StartsWith(normalizedPath, <<"/">>)

ResolvedPathOfParameter(normalizedPath) ==
    Resolve(<<PathJoin(ctx.basePath, normalizedPath)>>)

\* lines 72-76: the path the handler goes on to stat and read
ResolvedPath(normalizedPath) ==
    LET fullPath == IF ctx.mode = "file"
                    THEN Resolve(<<ctx.basePath, ctx.targetPath>>)
                    ELSE PathJoin(ctx.basePath, normalizedPath)
    IN  Resolve(<<fullPath>>)

\* line 77: resolvedPath.startsWith(resolve(basePath))
IsUnderBase(resolvedPath) == StartsWith(resolvedPath, Resolve(<<ctx.basePath>>))

Respond(status, error) ==
    [req EXCEPT !.pc = "done", !.status = status, !.error = error]

\* lines 59-80: the handler up to its first await
Validate(q) ==
    IF ~q.given \/ Len(q.value) = 0
    THEN [Respond(400, "File parameter is required") EXCEPT !.query = q]
    ELSE LET normalizedPath == Normalize(q.value)
             r == [req EXCEPT !.query = q, !.normalizedPath = normalizedPath]
         IN  IF IsInvalidPath(normalizedPath)
             THEN [r EXCEPT !.pc = "done", !.status = 403, !.error = "Invalid file path"]
             ELSE LET resolvedPath == ResolvedPath(normalizedPath)
                      rr == [r EXCEPT !.resolvedPath = resolvedPath]
                  IN  IF ~IsUnderBase(resolvedPath)
                      THEN [rr EXCEPT !.pc = "done", !.status = 403, !.error = "Access denied"]
                      ELSE [rr EXCEPT !.pc = "stat"]

\* a request arrives and the handler runs to `await fileExists(resolvedPath)`
Request(q) ==
    /\ req.pc = "idle"
    /\ req' = Validate(q)
    /\ UNCHANGED <<ctx, fs, access>>
    /\ UNCHANGED outsideContent

\* fileExists settles: stat succeeded (true) or threw (false); lines 82-85
StatSettles ==
    /\ req.pc = "stat"
    /\ access' = Append(access, <<"stat", req.resolvedPath, RealPath(req.resolvedPath)>>)
    /\ req' = IF Kind(req.resolvedPath) = "absent"
              THEN Respond(404, "File not found")
              ELSE [req EXCEPT !.pc = "read"]
    /\ UNCHANGED <<ctx, fs>>
    /\ UNCHANGED outsideContent

\* readFile settles; lines 87-98. A rejection (EISDIR for a directory, ENOENT
\* for a path that is gone) leaves the async handler and the framework answers
\* it with status 500.
ReadSettles ==
    /\ req.pc = "read"
    /\ access' = Append(access, <<"readFile", req.resolvedPath, RealPath(req.resolvedPath)>>)
    /\ req' = CASE Kind(req.resolvedPath) = "file" ->
                     [req EXCEPT !.pc = "done", !.status = 200,
                                 !.file = req.normalizedPath,
                                 !.raw = TextOf(RealPath(req.resolvedPath))]
                [] Kind(req.resolvedPath) = "dir" -> Respond(500, "EISDIR")
                [] OTHER -> Respond(500, "ENOENT")
    /\ UNCHANGED <<ctx, fs>>
    /\ UNCHANGED outsideContent

\* the response has been sent; the next request starts from a fresh record
Finish ==
    /\ req.pc = "done"
    /\ req' = IdleReq
    /\ access' = <<>>
    /\ UNCHANGED <<ctx, fs>>
    /\ UNCHANGED outsideContent

\* the environment removes a file or a symbolic link
Unlink(path) ==
    /\ path \in DOMAIN fs
    /\ fs[path] \in {"file", "link"}
    /\ fs' = [p \in DOMAIN fs \ {path} |-> fs[p]]
    /\ UNCHANGED <<ctx, req, access>>
    /\ UNCHANGED outsideContent

InitContent ==
    /\ ctx \in Contexts
    /\ fs = InitFs
    /\ req = IdleReq
    /\ access = <<>>
    /\ watcher = "null"
    /\ listeners = <<>>
    /\ connState = [c \in Conns |-> "idle"]
    /\ stream = [c \in Conns |-> <<>>]
    /\ heartbeat = [c \in Conns |-> FALSE]
    /\ emitted = <<>>
    /\ regAt = [c \in Conns |-> 0]
    /\ closedAt = [c \in Conns |-> 0]
    /\ beats = 0
    /\ RenderIdle
    /\ WatcherIdle
    /\ RestIdle

NextContent ==
    \/ \E q \in Queries : Request(q)
    \/ StatSettles
    \/ ReadSettles
    \/ Finish
    \/ \E path \in DOMAIN InitFs : Unlink(path)

SpecContent == InitContent /\ [][NextContent]_vars

(***************************************************************************)
(* Claims about the content endpoint, checked under SpecContent.           *)
(***************************************************************************)
\* a path has an up-traversal segment: one of its segments is '..'
HasUpSegment(path) ==
    LET segs == Split(path) IN \E i \in 1..Len(segs) : segs[i] = DotDot

\* a path starts from the filesystem root
StartsFromRoot(path) == Len(path) > 0 /\ path[1] = "/"

\* a path is the serving root, or an entry beneath it
UnderRoot(path) ==
    LET root == Resolve(<<ctx.basePath>>)
    IN  path = root \/ StartsWith(path, root \o <<"/">>)

\* the request carries a non-empty `file` parameter
HasFile == req.query.given /\ Len(req.query.value) > 0

\* the files the request has read: the entries its readFile calls reached
ReadFiles == {access[i][3] : i \in {j \in 1..Len(access) : access[j][1] = "readFile"}}

\* C7: a request whose `file`, normalized, has an up-traversal segment or
\* starts from the root is answered 403 at once, in either mode, and makes no
\* filesystem call: neither the existence check nor the read.
C7_TraversalRejectedUnread ==
    (req.pc # "idle" /\ HasFile
        /\ (HasUpSegment(Normalize(req.query.value))
            \/ StartsFromRoot(Normalize(req.query.value)))) =>
    (req.pc = "done" /\ req.status = 403 /\ access = <<>>)

\* C7 witness: in single-file mode, a request for ../a has been answered 403.
C7_Witness ==
    /\ ctx.mode = "file"
    /\ req.pc = "done"
    /\ req.query = [given |-> TRUE, value |-> <<".", ".", "/", "a">>]
    /\ req.status = 403
    /\ Kind(PathOther) = "file"

\* C8: every file the endpoint reads is the serving root or beneath it, and a
\* request whose resolved path is not under the root ends answered 403 with no
\* filesystem call made.
C8_ReadsOnlyUnderRoot ==
    /\ \A path \in ReadFiles : UnderRoot(path)
    /\ (req.pc = "done" /\ Len(req.resolvedPath) > 0 /\ ~UnderRoot(req.resolvedPath)) =>
            (req.status = 403 /\ access = <<>>)

\* C9: the status of every response is one of 200, 400, 403, 404.
C9_StatusInContract ==
    req.pc = "done" => req.status \in {200, 400, 403, 404}

\* the value fileExists gave the request, when it was asked
StatSaidAbsent ==
    /\ Len(access) = 1
    /\ access[1][1] = "stat"

\* C10: a response is classified by the first failing check, in order: no or
\* empty `file` gives 400 'File parameter is required'; else a traversal or
\* absolute path gives 403; else a resolved path outside the root gives 403;
\* else a resolved path that does not exist gives 404 'File not found'; and
\* only a request that passes all four is answered 200.
C10_FirstFailingCheck ==
    req.pc = "done" =>
        IF ~HasFile
        THEN req.status = 400 /\ req.error = "File parameter is required"
        ELSE IF \/ HasUpSegment(Normalize(req.query.value))
                \/ StartsFromRoot(Normalize(req.query.value))
        THEN req.status = 403
        ELSE IF ~UnderRoot(ResolvedPath(Normalize(req.query.value)))
        THEN req.status = 403
        ELSE IF StatSaidAbsent
        THEN req.status = 404 /\ req.error = "File not found"
        ELSE req.status # 404 /\ req.status # 403 /\ req.status # 400

\* the fixed target of single-file mode
TargetFile == Resolve(<<ctx.basePath, ctx.targetPath>>)

\* C19: in single-file mode every filesystem call of a content request is on
\* the fixed target file, and a request answered 200 has read that file and
\* returns its text, whatever `file` parameter it carried.
C19_FileModeReadsTarget ==
    ctx.mode = "file"
        => /\ \A i \in 1..Len(access) : access[i][2] = TargetFile
           /\ (req.pc = "done" /\ req.status = 200)
                 => /\ Len(access) = 2
                    /\ access[2][1] = "readFile"
                    /\ req.raw = TextOf(RealPath(TargetFile))

\* the target is a, the request asked for aa, and the text of a came back
C19_Witness ==
    /\ ctx.mode = "file"
    /\ ctx.targetPath = <<"a">>
    /\ req.pc = "done"
    /\ req.status = 200
    /\ req.query.value = <<"a", "a">>
    /\ req.raw = TextOf(PathA)

\* C20: in a 200 response, `file` is the relative path of the file that was
\* read (resolved on the root it is that file's path) and `raw` is that
\* file's text, in both modes.
C20_FileNamesWhatWasRead ==
    (req.pc = "done" /\ req.status = 200)
        => LET read == access[Len(access)]
           IN  /\ read[1] = "readFile"
               /\ Resolve(<<ctx.basePath, req.file>>) = read[2]
               /\ req.raw = TextOf(read[3])

(***************************************************************************)
(* The content renderer: markdown.ts.                                      *)
(*                                                                         *)
(* A document is the sequence of block tokens marked's lexer makes of it;  *)
(* marked.parse walks them in document order and calls renderer.heading    *)
(* for each heading token.  parseMarkdown has no await: from its first     *)
(* line to its return it keeps the thread, so calls of several requests    *)
(* interleave only where a request is suspended on filesystem I/O.         *)
(***************************************************************************)
HeadingToken(depth, text) == [type |-> "heading", depth |-> depth, text |-> text]

ParagraphToken == [type |-> "paragraph", depth |-> 0, text |-> <<"p">>]

TextA == <<"A", " ", "b">>
TextB == <<"B", "!">>

Docs ==
    { <<>>,
      <<ParagraphToken>>,
      <<HeadingToken(1, TextA)>>,
      <<HeadingToken(1, TextA), ParagraphToken, HeadingToken(2, TextB)>>,
      <<HeadingToken(2, TextB), HeadingToken(1, TextA)>> }

\* \w and \s of the two regular expressions of renderer.heading
IsWordChar(c) == c \in {"a", "b", "d", "m", "p", "A", "B", "D", "M", "_", "0", "1"}

IsSpaceChar(c) == c \in {" ", "\t", "\n"}

\* .replace(/[^\w\s-]/g, '')
StripPunctuation(s) ==
    SelectSeq(s, LAMBDA c : IsWordChar(c) \/ IsSpaceChar(c) \/ c = "-")

\* .replace(/\s+/g, '-'): every maximal run of whitespace becomes one hyphen
RECURSIVE HyphenateSpaces(_)
HyphenateSpaces(s) ==
    IF s = <<>> THEN <<>>
    ELSE IF IsSpaceChar(Head(s))
         THEN IF Len(s) > 1 /\ IsSpaceChar(s[2])
              THEN HyphenateSpaces(Tail(s))
              ELSE <<"-">> \o HyphenateSpaces(Tail(s))
         ELSE <<Head(s)>> \o HyphenateSpaces(Tail(s))

HeadingId(text) == HyphenateSpaces(StripPunctuation(ToLowerCase(text)))

\* the object renderer.heading pushes for one heading token
HeadingOf(token) ==
    [level |-> token.depth, text |-> token.text, id |-> HeadingId(token.text)]

ResetForgotten(h) == h

\* headings.length = 0
ResetHeadings(h) == <<>>

\* [...headings]: the caller gets a copy, not the shared array
Snapshot(h) == [alias |-> FALSE, value |-> h]

\* the heading list a caller holds, as it reads now
Observed(result) == IF result.alias THEN headings ELSE result.value

\* a request reaches `await readFile`; `doc` is what the file will give it
RenderRequest(r, doc) ==
    /\ thread = 0
    /\ rcall[r].pc = "idle"
    /\ rcall' = [rcall EXCEPT ![r].pc = "reading", ![r].content = doc]
    /\ UNCHANGED <<headings, thread>>
    /\ UNCHANGED outsideRender

\* readFile settles and the handler calls parseMarkdown(raw)
ParseBegin(r) ==
    /\ thread = 0
    /\ rcall[r].pc = "reading"
    /\ thread' = r
    /\ headings' = ResetHeadings(headings)
    /\ rcall' = [rcall EXCEPT ![r].pc = "parsing", ![r].pos = 1]
    /\ UNCHANGED outsideRender

\* marked.parse renders the next token, renderer.heading pushing a heading
ParseToken(r) ==
    /\ thread = r
    /\ rcall[r].pc = "parsing"
    /\ rcall[r].pos <= Len(rcall[r].content)
    /\ LET token == rcall[r].content[rcall[r].pos]
       IN  headings' = IF token.type = "heading"
                       THEN Append(headings, HeadingOf(token))
                       ELSE headings
    /\ rcall' = [rcall EXCEPT ![r].pos = @ + 1]
    /\ UNCHANGED thread
    /\ UNCHANGED outsideRender

\* return { html, headings: [...headings] }
ParseReturn(r) ==
    /\ thread = r
    /\ rcall[r].pc = "parsing"
    /\ rcall[r].pos > Len(rcall[r].content)
    /\ rcall' = [rcall EXCEPT ![r].pc = "done", ![r].result = Snapshot(headings)]
    /\ thread' = 0
    /\ UNCHANGED headings
    /\ UNCHANGED outsideRender

InitRender ==
    /\ RenderIdle
    /\ WatcherIdle
    /\ RestIdle
    /\ InitSse
    /\ watcher = "null"
    /\ ctx = DirContext
    /\ fs = InitFs
    /\ req = IdleReq
    /\ access = <<>>

NextRender ==
    \/ \E r \in Renders, doc \in Docs : RenderRequest(r, doc)
    \/ \E r \in Renders : ParseBegin(r)
    \/ \E r \in Renders : ParseToken(r)
    \/ \E r \in Renders : ParseReturn(r)

SpecRender == InitRender /\ [][NextRender]_vars

\* the headings of a document, in document order
RECURSIVE HeadingsIn(_)
HeadingsIn(doc) ==
    IF doc = <<>> THEN <<>>
    ELSE IF Head(doc).type = "heading"
         THEN <<[level |-> Head(doc).depth, text |-> Head(doc).text,
                 id |-> HeadingId(Head(doc).text)]>> \o HeadingsIn(Tail(doc))
         ELSE HeadingsIn(Tail(doc))

\* C11: whatever calls were made before, are suspended or come after, the
\* heading list a render call returned holds exactly the headings of that
\* call's own input, in document order, and keeps holding them.
C11_HeadingsOfOwnInput ==
    \A r \in Renders :
        rcall[r].pc = "done" => Observed(rcall[r].result) = HeadingsIn(rcall[r].content)

\* two calls have returned different, non-empty lists, and the shared array
\* no longer holds what the first of them was given
C11_Witness ==
    /\ rcall[1].pc = "done" /\ Len(rcall[1].result.value) = 2
    /\ rcall[2].pc = "done" /\ Len(rcall[2].result.value) = 1
    /\ headings # rcall[1].result.value

(***************************************************************************)
(* FileWatcher's lifecycle: start, stop and the callbacks of the watch     *)
(* handle (watcher.ts).                                                    *)
(*                                                                         *)
(* A watch handle reports a change of a path to its callbacks while it is  *)
(* open and the path does not match the `ignored` expression; close() on   *)
(* it ends the reports at once and settles later.  stop() is suspended at  *)
(* `await this.watcher.close()`, and start() or another stop() may run     *)
(* before it resumes.                                                      *)
(***************************************************************************)
WatchedMarkdown == <<"/", "r", "/", "c", ".", "m", "a", "r", "k", "d", "o", "w", "n">>
WatchedHidden == <<"/", "r", "/", ".", "h", "/", "a", ".", "m", "d">>
WatchedDist == <<"/", "r", "/", "d", "i", "s", "t", "/", "a", ".", "m", "d">>
WatchedModules ==
    <<"/", "r", "/", "n", "o", "d", "e", "_", "m", "o", "d", "u", "l", "e", "s",
      "/", "a", ".", "m", "d">>
WatchedADist == <<"/", "r", "/", "a", "d", "i", "s", "t", ".", "m", "d">>

\* what happens in the watched directory: /r/a.md added, /r/d/B.MD and
\* /r/adist.md modified, /r/c.markdown removed, and changes of a text file,
\* of a file in a hidden directory, in dist and in node_modules
FsChanges ==
    { <<"add", WatchedAMd>>, <<"change", WatchedBMd>>, <<"unlink", WatchedMarkdown>>,
      <<"change", WatchedTxt>>, <<"add", WatchedHidden>>, <<"change", WatchedDist>>,
      <<"unlink", WatchedModules>>, <<"change", WatchedADist>> }

\* ignored: /(^|[\/\\])\.|node_modules|dist/, tested against the whole path
Ignored(path) ==
    \/ StartsWith(path, <<".">>)
    \/ Includes(path, <<"/", ".">>)
    \/ Includes(path, <<"\\", ".">>)
    \/ Includes(path, <<"n", "o", "d", "e", "_", "m", "o", "d", "u", "l", "e", "s">>)
    \/ Includes(path, <<"d", "i", "s", "t">>)

\* the handle the next watch() call returns
FreshHandle ==
    CHOOSE h \in Handles :
        /\ handles[h] = "unused"
        /\ \A g \in Handles : g < h => handles[g] # "unused"

WatchClosingOld(hs, old, new) ==
    [h \in Handles |-> IF h = new THEN "open" ELSE IF h = old THEN "closed" ELSE hs[h]]

\* this.watcher = watch(watchPath, ...): a new handle is opened; the handle
\* this.watcher referred to before is not touched
Watch(hs, old, new) == [hs EXCEPT ![new] = "open"]

HasWatcherAlways(w) == TRUE

\* if (this.watcher)
HasWatcher(w) == w # 0

\* the handles whose callbacks the next change reaches
OpenHandles == {h \in Handles : handles[h] = "open"}

\* start() has been called and the handle this.watcher refers to is open
Started == fsWatcher # 0 /\ handles[fsWatcher] = "open"

\* handleEvent(type, filePath) on the emitter's log and the listeners' streams
AfterHandleEvent(state, type, filePath) ==
    IF ~IsMarkdownFile(filePath) THEN state
    ELSE LET event == FileChangeEvent(type, filePath)
         IN  [emitted |-> Append(state.emitted, event),
              stream |-> Emit(listeners, state.stream, event)]

\* every open handle calls its callback of the change's type once
RECURSIVE AfterCallbacks(_, _, _, _)
AfterCallbacks(n, state, type, filePath) ==
    IF n = 0 THEN state
    ELSE AfterCallbacks(n - 1, AfterHandleEvent(state, type, filePath), type, filePath)

\* start(watchPath): synchronous
Start ==
    /\ \E h \in Handles : handles[h] = "unused"
    /\ handles' = Watch(handles, fsWatcher, FreshHandle)
    /\ fsWatcher' = FreshHandle
    /\ quiet' = FALSE
    /\ UNCHANGED <<stops, lastChange, emitted, stream>>
    /\ UNCHANGED outsideWatch

\* stop() up to its await: with no watcher it returns at once; otherwise it
\* calls close() on the handle this.watcher refers to and is suspended
StopCall(s) ==
    /\ stops[s].pc = "idle"
    /\ IF HasWatcher(fsWatcher)
       THEN IF fsWatcher = 0
            THEN \* close() of null: a TypeError rejects the promise of stop()
                 /\ stops' = [stops EXCEPT ![s].pc = "threw"]
                 /\ UNCHANGED <<handles, quiet>>
            ELSE /\ handles' = [handles EXCEPT ![fsWatcher] = "closing"]
                 /\ stops' = [stops EXCEPT ![s] = [pc |-> "closing", target |-> fsWatcher]]
                 /\ UNCHANGED quiet
       ELSE /\ stops' = [stops EXCEPT ![s].pc = "done"]
            /\ quiet' = TRUE
            /\ UNCHANGED handles
    /\ UNCHANGED <<fsWatcher, lastChange, emitted, stream>>
    /\ UNCHANGED outsideWatch

\* close() has settled and stop() resumes: this.watcher = null
StopResume(s) ==
    /\ stops[s].pc = "closing"
    /\ handles' = [handles EXCEPT ![stops[s].target] = "closed"]
    /\ fsWatcher' = 0
    /\ stops' = [stops EXCEPT ![s].pc = "done"]
    /\ quiet' = TRUE
    /\ UNCHANGED <<lastChange, emitted, stream>>
    /\ UNCHANGED outsideWatch

\* a file beneath the watched path is added, modified or removed
FsChange(type, filePath) ==
    /\ Len(emitted) < MaxEvents
    /\ LET reports == IF Ignored(filePath) THEN 0 ELSE Cardinality(OpenHandles)
           after == AfterCallbacks(reports, [emitted |-> emitted, stream |-> stream],
                                   type, filePath)
       IN  /\ emitted' = after.emitted
           /\ stream' = after.stream
    /\ lastChange' = [type |-> type, path |-> filePath, started |-> Started,
                      before |-> Len(emitted)]
    /\ UNCHANGED <<fsWatcher, handles, stops, quiet>>
    /\ UNCHANGED outsideWatch

\* a FileWatcher just constructed, with one client listening on its channel
InitWatcher ==
    /\ WatcherIdle
    /\ RestIdle
    /\ watcher = "FileWatcher"
    /\ listeners = <<1>>
    /\ connState = [c \in Conns |-> IF c = 1 THEN "open" ELSE "idle"]
    /\ stream = [c \in Conns |-> IF c = 1 THEN Greeting ELSE <<>>]
    /\ heartbeat = [c \in Conns |-> c = 1]
    /\ emitted = <<>>
    /\ regAt = [c \in Conns |-> 0]
    /\ closedAt = [c \in Conns |-> 0]
    /\ beats = 0
    /\ ctx = DirContext
    /\ fs = InitFs
    /\ req = IdleReq
    /\ access = <<>>
    /\ RenderIdle

NextWatcher ==
    \/ Start
    \/ \E s \in StopCalls : StopCall(s)
    \/ \E s \in StopCalls : StopResume(s)
    \/ \E e \in FsChanges : FsChange(e[1], e[2])

SpecWatcher == InitWatcher /\ [][NextWatcher]_vars

\* C12: once a stop() call has completed and until start() is called again,
\* no change of the watched directory emits an event or reaches a listener.
C12_SilentAfterStop ==
    [][quiet => (emitted' = emitted /\ stream' = stream)]_vars

\* C13: a start() on a watcher whose handle is open leaves that handle open and
\* unreferenced, and no later step closes a handle that is open and
\* unreferenced: stop() closes only the handle this.watcher refers to.
C13_SecondStartLeaks ==
    [][/\ (Started /\ fsWatcher' # 0 /\ fsWatcher' # fsWatcher)
            => handles'[fsWatcher] = "open"
       /\ \A h \in Handles :
            (handles[h] = "open" /\ fsWatcher # h)
                => (handles'[h] = "open" /\ fsWatcher' # h)]_vars

\* start() twice, then a stop() that has completed: the second handle is
\* closed, the first is still open and nothing refers to it
C13_Witness ==
    /\ fsWatcher = 0
    /\ handles[1] = "open"
    /\ handles[2] = "closed"
    /\ \E s \in StopCalls : stops[s].pc = "done" /\ stops[s].target = 2

\* C14: a stop() called while this.watcher is null completes at once without
\* an error, closes no handle and leaves the listeners of 'change' as they were.
C14_StopWithoutWatcher ==
    [][\A s \in StopCalls :
        (fsWatcher = 0 /\ stops[s].pc = "idle" /\ stops'[s].pc # "idle")
            => /\ stops'[s].pc = "done"
               /\ handles' = handles
               /\ fsWatcher' = 0
               /\ listeners' = listeners]_vars

\* one stop() closed a started watcher and another found nothing to close
C14_Witness ==
    \E s, t \in StopCalls :
        /\ stops[s].pc = "done" /\ stops[s].target # 0
        /\ stops[t].pc = "done" /\ stops[t].target = 0
        /\ listeners = <<1>>

\* the name ends in .md or .markdown, whatever the case of its letters
NamedMarkdown(path) ==
    LET n == Len(path)
    IN  \/ /\ n >= 3
           /\ path[n - 2] = "."
           /\ path[n - 1] \in {"m", "M"}
           /\ path[n] \in {"d", "D"}
        \/ /\ n >= 9
           /\ path[n - 8] = "."
           /\ path[n - 7] \in {"m", "M"}
           /\ path[n - 6] \in {"a", "A"}
           /\ path[n - 5] \in {"r", "R"}
           /\ path[n - 4] \in {"k", "K"}
           /\ path[n - 3] \in {"d", "D"}
           /\ path[n - 2] \in {"o", "O"}
           /\ path[n - 1] \in {"w", "W"}
           /\ path[n] \in {"n", "N"}

\* C15: every emitted event is for a path named .md or .markdown, and a change
\* of any other file emits nothing and reaches no listener.
C15_OnlyMarkdownEmitted ==
    /\ \A i \in 1..Len(emitted) : NamedMarkdown(emitted[i].file)
    /\ (lastChange.type # "none" /\ ~NamedMarkdown(lastChange.path))
          => /\ Len(emitted) = lastChange.before
             /\ Len(FileChanges(stream[1])) = lastChange.before

\* an event was emitted, then a text file changed under a started watcher
C15_Witness ==
    /\ lastChange.path = WatchedTxt
    /\ lastChange.started
    /\ Len(emitted) = 1

\* the path has a hidden segment, or a directory segment named node_modules
\* or dist, beneath the root
InsideExcluded(path) ==
    LET segs == Split(Relative(Root, path))
    IN  \E i \in 1..Len(segs) :
            \/ StartsWith(segs[i], <<".">>)
            \/ /\ i < Len(segs)
               /\ segs[i] \in { <<"d", "i", "s", "t">>,
                                <<"n", "o", "d", "e", "_", "m", "o", "d", "u", "l", "e", "s">> }

\* C16: while the watcher is started, a change of a Markdown file that is not
\* inside a hidden entry, node_modules or dist emits an event of its type.
C16_EligibleChangeEmitted ==
    (/\ lastChange.type # "none"
     /\ lastChange.started
     /\ NamedMarkdown(lastChange.path)
     /\ ~InsideExcluded(lastChange.path))
        => /\ Len(emitted) > lastChange.before
           /\ emitted[Len(emitted)].type = lastChange.type

(***************************************************************************)
(* The tree builder: buildFileTree (fileTree.ts), over the directory the   *)
(* watcher's changes happen in.                                            *)
(***************************************************************************)
IGNORE_PATTERNS ==
    { <<"n", "o", "d", "e", "_", "m", "o", "d", "u", "l", "e", "s">>,
      <<".", "g", "i", "t">>,
      <<".", "D", "S", "_", "S", "t", "o", "r", "e">>,
      <<"d", "i", "s", "t">>,
      <<".", "n", "e", "x", "t">>,
      <<".", "c", "a", "c", "h", "e">> }

Dirent(name, kind) == [name |-> name, kind |-> kind]

\* where an entry comes in a listing of the given order
ListingKey(e, order) ==
    CASE order = "forward" -> e.rank
      [] order = "backward" -> 0 - e.rank
      [] OTHER -> IF e.rank % 2 = 1 THEN e.rank ELSE e.rank + 1000

RECURSIVE ListedFrom(_, _)
ListedFrom(es, order) ==
    IF es = {} THEN <<>>
    ELSE LET first == CHOOSE e \in es :
                        \A f \in es : ListingKey(e, order) <= ListingKey(f, order)
         IN  <<Dirent(first.name, first.kind)>> \o ListedFrom(es \ {first}, order)

\* readdir(dirPath, { withFileTypes: true }): the entries of the directory, in
\* the order the filesystem lists them
Readdir(dirPath) == ListedFrom({e \in disk : e.dir = dirPath}, listing)

\* the order localeCompare gives the characters of the names: punctuation,
\* digits, letters; a lower-case letter before its upper-case form
CollationChars ==
    << "_", "-", ".", "0", "1", "2", "3", "4", "5", "6", "7", "8", "9",
       "a", "b", "c", "d", "e", "f", "g", "h", "i", "j", "k", "l", "m",
       "n", "o", "p", "q", "r", "s", "t", "u", "v", "w", "x", "y", "z" >>

Primary(c) == CHOOSE i \in 1..Len(CollationChars) : CollationChars[i] = LowerChar(c)

RECURSIVE ComparePrimary(_, _)
ComparePrimary(a, b) ==
    IF a = <<>> /\ b = <<>> THEN 0
    ELSE IF a = <<>> THEN -1
    ELSE IF b = <<>> THEN 1
    ELSE IF Primary(Head(a)) < Primary(Head(b)) THEN -1
    ELSE IF Primary(Head(a)) > Primary(Head(b)) THEN 1
    ELSE ComparePrimary(Tail(a), Tail(b))

RECURSIVE CompareCase(_, _)
CompareCase(a, b) ==
    IF a = <<>> \/ b = <<>> THEN 0
    ELSE IF Head(a) = Head(b) THEN CompareCase(Tail(a), Tail(b))
    ELSE IF Head(a) = LowerChar(Head(a)) THEN -1
    ELSE 1

\* a.localeCompare(b)
LocaleCompare(a, b) ==
    IF ComparePrimary(a, b) # 0 THEN ComparePrimary(a, b) ELSE CompareCase(a, b)

CompareNodesByName(a, b) == LocaleCompare(a.name, b.name)

\* the comparator of the sort: directories first, then by name
CompareNodes(a, b) ==
    IF a.type = b.type THEN LocaleCompare(a.name, b.name)
    ELSE IF a.type = "directory" THEN -1 ELSE 1

\* Array.prototype.sort is stable: a node goes after those it does not precede
RECURSIVE InsertNode(_, _)
InsertNode(sorted, node) ==
    IF sorted = <<>> THEN <<node>>
    ELSE IF CompareNodes(node, Head(sorted)) < 0 THEN <<node>> \o sorted
    ELSE <<Head(sorted)>> \o InsertNode(Tail(sorted), node)

SortNodesSkipped(nodes) == nodes

RECURSIVE SortNodes(_)
SortNodes(nodes) ==
    IF nodes = <<>> THEN <<>>
    ELSE InsertNode(SortNodes(SubSeq(nodes, 1, Len(nodes) - 1)), nodes[Len(nodes)])

RECURSIVE HasMarkdownFiles(_)
HasMarkdownFiles(nodes) ==
    \E i \in 1..Len(nodes) :
        \/ nodes[i].type = "file"
        \/ (nodes[i].type = "directory" /\ HasMarkdownFiles(nodes[i].children))

IsIgnoredNameNever(name) == FALSE

\* IGNORE_PATTERNS.includes(entry.name)
IsIgnoredName(name) == name \in IGNORE_PATTERNS

KeepsDirectoryAlways(children) == TRUE

\* children.length > 0 || hasMarkdownFiles(children)
KeepsDirectory(children) == Len(children) > 0 \/ HasMarkdownFiles(children)

RECURSIVE BuildFileTree(_, _)
RECURSIVE NodesOf(_, _, _)
\* the body of the for loop, for the entries from the first of `entries` on
NodesOf(entries, dirPath, basePath) ==
    IF entries = <<>> THEN <<>>
    ELSE LET entry == Head(entries)
             rest == NodesOf(Tail(entries), dirPath, basePath)
             fullPath == PathJoin(dirPath, entry.name)
             relativePath == Relative(basePath, fullPath)
         IN  IF IsIgnoredName(entry.name) THEN rest
             ELSE IF entry.kind = "dir"
             THEN LET children == BuildFileTree(fullPath, basePath)
                  IN  IF KeepsDirectory(children)
                      THEN <<[name |-> entry.name, path |-> relativePath,
                              type |-> "directory", children |-> children]>> \o rest
                      ELSE rest
             ELSE IF entry.kind = "file" /\ IsMarkdownFile(entry.name)
             THEN <<[name |-> entry.name, path |-> relativePath, type |-> "file"]>> \o rest
             ELSE rest

BuildFileTree(dirPath, basePath) == SortNodes(NodesOf(Readdir(dirPath), dirPath, basePath))

\* finding the node of an entry: by name at each level, from the root down
HasNode(nodes, name) == \E i \in 1..Len(nodes) : nodes[i].name = name

Child(nodes, name) == nodes[CHOOSE i \in 1..Len(nodes) : nodes[i].name = name]

RECURSIVE HasNodeAt(_, _)
HasNodeAt(nodes, segs) ==
    /\ segs # <<>>
    /\ HasNode(nodes, Head(segs))
    /\ \/ Len(segs) = 1
       \/ /\ Child(nodes, Head(segs)).type = "directory"
          /\ HasNodeAt(Child(nodes, Head(segs)).children, Tail(segs))

RECURSIVE NodeAt(_, _)
NodeAt(nodes, segs) ==
    IF Len(segs) = 1 THEN Child(nodes, Head(segs))
    ELSE NodeAt(Child(nodes, Head(segs)).children, Tail(segs))

\* the names from the root down to an absolute path beneath it
NamesBelowRoot(path) == Split(SubSeq(path, Len(Root) + 2, Len(path)))

C18_TreeAndWatcherAgree ==
    (lastChange.type # "none" /\ lastChange.started /\ NamedMarkdown(lastChange.path))
        => (HasNodeAt(BuildFileTree(Root, Root), NamesBelowRoot(lastChange.path))
              <=> Len(emitted) > lastChange.before)

(***************************************************************************)
(* Asset rewriting: rewriteAssetPaths (routes/api.ts), followed on the     *)
(* `src` of one <img> tag the expression of line 10 is tried on.           *)
(***************************************************************************)
Assets == <<"/", "a", "s", "s", "e", "t", "s">>

\* posix.dirname(path)
RECURSIVE DirnameEnd(_, _, _)
DirnameEnd(path, i, matchedSlash) ==
    IF i < 2 THEN 0
    ELSE IF path[i] = "/"
         THEN IF ~matchedSlash THEN i - 1 ELSE DirnameEnd(path, i - 1, matchedSlash)
         ELSE DirnameEnd(path, i - 1, FALSE)

Dirname(path) ==
    IF Len(path) = 0 THEN <<".">>
    ELSE LET hasRoot == path[1] = "/"
             end == DirnameEnd(path, Len(path), TRUE)
         IN  IF end = 0 THEN (IF hasRoot THEN <<"/">> ELSE <<".">>)
             ELSE IF hasRoot /\ end = 1 THEN <<"/", "/">>
             ELSE SubSeq(path, 1, end)

\* posix.join(a, b, c): the non-empty arguments joined by '/', then normalized
PosixJoin3(a, b, c) ==
    LET joined == Join(NonEmpty(<<a, b, c>>))
    IN  IF Len(joined) = 0 THEN <<".">> ELSE Normalize(joined)

\* line 90: the directory passed to rewriteAssetPaths
FileDir(mode, normalizedPath) == IF mode = "file" THEN <<>> ELSE Dirname(normalizedPath)

\* ([^"']+): the expression matches a tag only when its src is not empty
SrcMatches(src) == Len(src) > 0

\* lines 12-13: the sources the callback returns as they are
KeptAsIs(src) ==
    \/ StartsWith(src, <<"h", "t", "t", "p", ":", "/", "/">>)
    \/ StartsWith(src, <<"h", "t", "t", "p", "s", ":", "/", "/">>)
    \/ StartsWith(src, <<"d", "a", "t", "a", ":">>)
    \/ StartsWith(src, <<"/">>)

\* lines 16-17: posix.normalize(posix.join('/assets', fileDir, src))
AssetPath(fileDir, src) == Normalize(PosixJoin3(Assets, fileDir, src))

\* the src the tag has in the returned HTML
RewrittenSrc(fileDir, src) ==
    IF ~SrcMatches(src) \/ KeptAsIs(src) THEN src ELSE AssetPath(fileDir, src)

\* the paths of the files rendered: a, d/a, d/e/a
RenderedPaths ==
    { <<"a">>, <<"d", "/", "a">>, <<"d", "/", "e", "/", "a">> }

\* how the sources of the model begin
SrcPrefixes ==
    { <<>>,
      <<".", "/">>,
      <<".", ".", "/">>,
      <<"/">>,
      <<"h", "t", "t", "p", ":", "/", "/">>,
      <<"h", "t", "t", "p", "s", ":", "/", "/">>,
      <<"d", "a", "t", "a", ":">>,
      <<"f", "t", "p", ":", "/", "/">>,
      <<"H", "T", "T", "P", "S", ":", "/", "/">>,
      <<"m", "a", "i", "l", "t", "o", ":">> }

SrcBodies == UNION { [1..n -> {"a", ".", "/"}] : n \in 0..MaxSrcLen }

Sources == { prefix \o body : prefix \in SrcPrefixes, body \in SrcBodies }

\* the handler has rendered a file and hands one tag to rewriteAssetPaths
InitAssets ==
    /\ \E mode \in {"file", "directory"}, path \in RenderedPaths, src \in Sources :
          img = [pc |-> "tag", fileDir |-> FileDir(mode, path), src |-> src, out |-> <<>>]
    /\ InitSse
    /\ watcher = "null"
    /\ ctx = DirContext
    /\ fs = InitFs
    /\ req = IdleReq
    /\ access = <<>>
    /\ RenderIdle
    /\ WatcherIdle
    /\ TreeIdle
    /\ SlugIdle
    /\ ProcIdle
    /\ DownIdle
    /\ ClientIdle

\* html.replace(...): the callback's result replaces the tag
RewriteImg ==
    /\ img.pc = "tag"
    /\ img' = [img EXCEPT !.pc = "done", !.out = RewrittenSrc(img.fileDir, img.src)]
    /\ UNCHANGED outsideAsset

NextAssets == RewriteImg

SpecAssets == InitAssets /\ [][NextAssets]_vars

\* a scheme and a colon open the reference: an absolute URL or a data URI
HasScheme(src) ==
    \E i \in 2..Len(src) :
        /\ src[i] = ":"
        /\ \A j \in 1..(i - 1) : src[j] \notin {"/", ".", ":"}

\* a reference relative to the rendered file
IsRelativeRef(src) == Len(src) > 0 /\ ~HasScheme(src) /\ src[1] # "/"

\* C21: the src of a relative reference is rewritten to '/assets' joined with
\* the file's directory and the reference, normalized, and that path starts
\* with '/assets/'.
C21_RelativeSrcIntoAssets ==
    (img.pc = "done" /\ IsRelativeRef(img.src))
        => /\ img.out = Normalize(Join(NonEmpty(<<Assets, img.fileDir, img.src>>)))
           /\ StartsWith(img.out, Assets \o <<"/">>)

\* C22: the src of an absolute URL of any scheme, of a data URI and of a
\* root-relative path is left as it is; only relative references change.
C22_OnlyRelativeSrcChanged ==
    img.pc = "done" => (img.out # img.src => IsRelativeRef(img.src))

(***************************************************************************)
(* The tree builder over any directory tree: GET /api/tree in directory    *)
(* mode calls buildFileTree(basePath, basePath) on what is on disk, and    *)
(* readdir lists the entries of a directory in no particular order.        *)
(***************************************************************************)
DirE == <<"/", "r", "/", "d", "/", "e">>
DirGit == <<"/", "r", "/", "d", "/", ".", "g", "i", "t">>
DirZ == <<"/", "r", "/", "z">>

\* what may be on disk: at the root the files a.md, B.MD, c.markdown and
\* n.txt, the symbolic link l.md and the directories d, dist and z; in d the
\* file a.md and the directories e and .git; B.MD in d/e, a.md in d/.git and
\* in dist, n.txt in z
TreeCandidates ==
    { Entry(Root, <<"z">>, "dir", 1),
      Entry(Root, NameMarkdown, "file", 2),
      Entry(Root, NameBMd, "file", 3),
      Entry(Root, <<"l", ".", "m", "d">>, "link", 4),
      Entry(Root, NameAMd, "file", 5),
      Entry(Root, <<"d", "i", "s", "t">>, "dir", 6),
      Entry(Root, NameTxt, "file", 7),
      Entry(Root, <<"d">>, "dir", 8),
      Entry(DirD, <<"e">>, "dir", 9),
      Entry(DirD, NameAMd, "file", 10),
      Entry(DirD, <<".", "g", "i", "t">>, "dir", 11),
      Entry(DirE, NameBMd, "file", 12),
      Entry(DirGit, NameAMd, "file", 13),
      Entry(DirDist, NameAMd, "file", 14),
      Entry(DirZ, NameTxt, "file", 15) }

\* the path of an entry
EntryPath(e) == e.dir \o <<"/">> \o e.name

\* every entry lies in the root or in a directory that is there too
ParentClosed(es) ==
    \A e \in es : e.dir = Root \/ \E d \in es : d.kind = "dir" /\ EntryPath(d) = e.dir

Disks == {es \in SUBSET TreeCandidates : Cardinality(es) <= MaxEntries /\ ParentClosed(es)}

Listings == {"forward", "backward", "oddFirst"}

InitTree ==
    /\ disk \in Disks
    /\ listing \in Listings
    /\ built = <<>>
    /\ AssetIdle
    /\ SlugIdle
    /\ ProcIdle
    /\ InitSse
    /\ watcher = "null"
    /\ ctx = DirContext
    /\ fs = InitFs
    /\ req = IdleReq
    /\ access = <<>>
    /\ RenderIdle
    /\ WatcherIdle
    /\ DownIdle
    /\ ClientIdle

\* GET /api/tree in directory mode: buildFileTree(basePath, basePath)
BuildTree ==
    /\ Len(built) < MaxBuilds
    /\ built' = Append(built, [tree |-> BuildFileTree(ctx.basePath, ctx.basePath),
                                order |-> listing])
    /\ UNCHANGED <<disk, listing>>
    /\ UNCHANGED outsideTree

\* the next readdir lists the same entries in another order
Relist(order) ==
    /\ order # listing
    /\ listing' = order
    /\ UNCHANGED <<disk, built>>
    /\ UNCHANGED outsideTree

NextTree ==
    \/ BuildTree
    \/ \E order \in Listings : Relist(order)

SpecTree == InitTree /\ [][NextTree]_vars

\* the names the tree builder is to leave out, at any depth
IgnoredNames ==
    { <<"n", "o", "d", "e", "_", "m", "o", "d", "u", "l", "e", "s">>,
      <<".", "g", "i", "t">>,
      <<".", "D", "S", "_", "S", "t", "o", "r", "e">>,
      <<"d", "i", "s", "t">>,
      <<".", "n", "e", "x", "t">>,
      <<".", "c", "a", "c", "h", "e">> }

\* the names from the root down to an entry
EntryNames(e) == NamesBelowRoot(EntryPath(e))

NoIgnoredComponent(e) ==
    \A i \in 1..Len(EntryNames(e)) : EntryNames(e)[i] \notin IgnoredNames

\* the regular Markdown files the tree is to show
ShownFiles ==
    {e \in disk : e.kind = "file" /\ NamedMarkdown(e.name) /\ NoIgnoredComponent(e)}

\* the entry is a directory holding, at any depth, a file the tree is to show
HoldsShownFile(d) ==
    \E f \in ShownFiles : StartsWith(f.dir \o <<"/">>, EntryPath(d) \o <<"/">>)

\* every node of a tree, at any depth
RECURSIVE AllNodes(_)
AllNodes(nodes) ==
    UNION { {nodes[i]} \cup (IF nodes[i].type = "directory"
                             THEN AllNodes(nodes[i].children) ELSE {})
            : i \in 1..Len(nodes) }

IsNodeOfType(tree, e, type) ==
    /\ HasNodeAt(tree, EntryNames(e))
    /\ NodeAt(tree, EntryNames(e)).type = type

\* C23: a directory has a node in the tree exactly when it is not ignored and
\* holds, directly or through directories that are not ignored, a file the
\* tree shows; no directory node has an empty list of children.
C23_DirectoryShownIffHoldsFile ==
    \A i \in 1..Len(built) :
        /\ \A d \in {e \in disk : e.kind = "dir"} :
              IsNodeOfType(built[i].tree, d, "directory")
                  <=> (NoIgnoredComponent(d) /\ HoldsShownFile(d))
        /\ \A n \in AllNodes(built[i].tree) :
              n.type = "directory" => Len(n.children) > 0

\* d holds only the directory e, e holds B.MD, z is empty: d and d/e are in
\* the tree, z is not
C23_Witness ==
    /\ Len(built) > 0
    /\ disk = { Entry(Root, <<"d">>, "dir", 8), Entry(DirD, <<"e">>, "dir", 9),
                Entry(DirE, NameBMd, "file", 12), Entry(Root, <<"z">>, "dir", 1) }
    /\ Len(built[1].tree) = 1
    /\ built[1].tree[1].name = <<"d">>
    /\ built[1].tree[1].children[1].name = <<"e">>

\* C24: the file nodes of the tree are exactly the regular files named .md or
\* .markdown, in any case, with no path component among the ignored names;
\* no node at any depth has one of those names.
C24_FileNodesAreShownFiles ==
    \A i \in 1..Len(built) :
        /\ {n.path : n \in {m \in AllNodes(built[i].tree) : m.type = "file"}}
              = {Join(EntryNames(f)) : f \in ShownFiles}
        /\ \A n \in AllNodes(built[i].tree) : n.name \notin IgnoredNames

\* B.MD, the symbolic link l.md and dist with a.md in it: only B.MD is shown
C24_Witness ==
    /\ Len(built) > 0
    /\ disk = { Entry(Root, NameBMd, "file", 3), Entry(Root, <<"l", ".", "m", "d">>, "link", 4),
                Entry(Root, <<"d", "i", "s", "t">>, "dir", 6), Entry(DirDist, NameAMd, "file", 14) }
    /\ Len(built[1].tree) = 1
    /\ built[1].tree[1].path = NameBMd

\* the lists of siblings of a tree: the top level and every children list
Levels(tree) ==
    {tree} \cup {n.children : n \in {m \in AllNodes(tree) : m.type = "directory"}}

\* the alphabet, the full stop of an extension before the letters
LetterOrder ==
    << ".", "a", "b", "c", "d", "e", "f", "g", "h", "i", "j", "k", "l", "m",
       "n", "o", "p", "q", "r", "s", "t", "u", "v", "w", "x", "y", "z" >>

LetterRank(c) ==
    CHOOSE i \in 1..Len(LetterOrder) :
        LetterOrder[i] = (CASE c = "A" -> "a" [] c = "B" -> "b" [] c = "D" -> "d"
                            [] c = "M" -> "m" [] OTHER -> c)

\* a comes no later than b in alphabetical order, letter case aside
RECURSIVE AlphabeticalUpTo(_, _)
AlphabeticalUpTo(a, b) ==
    IF a = <<>> THEN TRUE
    ELSE IF b = <<>> THEN FALSE
    ELSE IF LetterRank(Head(a)) # LetterRank(Head(b))
         THEN LetterRank(Head(a)) < LetterRank(Head(b))
         ELSE AlphabeticalUpTo(Tail(a), Tail(b))

\* C25: in every list of siblings no file node comes before a directory node,
\* and the nodes of one type are in ascending alphabetical order of name.
C25_DirectoriesFirstThenByName ==
    \A i \in 1..Len(built) : \A level \in Levels(built[i].tree) :
        \A j, k \in 1..Len(level) :
            j < k => /\ ~(level[j].type = "file" /\ level[k].type = "directory")
                     /\ level[j].type = level[k].type
                           => AlphabeticalUpTo(level[j].name, level[k].name)

\* readdir gave B.MD, a.md, d; the tree has d, a.md, B.MD
C25_Witness ==
    /\ Len(built) > 0
    /\ built[1].order = "forward"
    /\ disk = { Entry(Root, NameBMd, "file", 3), Entry(Root, NameAMd, "file", 5),
                Entry(Root, <<"d">>, "dir", 8), Entry(DirD, NameAMd, "file", 10) }
    /\ Len(built[1].tree) = 3
    /\ built[1].tree[1].name = <<"d">>
    /\ built[1].tree[2].name = NameAMd
    /\ built[1].tree[3].name = NameBMd

\* the paths of a list of siblings and of all below them: the parent's path,
\* a slash and the name; the name alone at the top level
RECURSIVE PathsFollowNames(_, _)
PathsFollowNames(nodes, parentPath) ==
    \A i \in 1..Len(nodes) :
        /\ nodes[i].path = (IF parentPath = <<>> THEN nodes[i].name
                            ELSE parentPath \o <<"/">> \o nodes[i].name)
        /\ \A j \in 1..Len(nodes) : j # i => nodes[j].path # nodes[i].path
        /\ nodes[i].type = "directory" => PathsFollowNames(nodes[i].children, nodes[i].path)

C27_RebuildIsIdentical ==
    \A i, j \in 1..Len(built) : built[i].tree = built[j].tree

\* two builds met different listing orders of three top-level entries
C27_Witness ==
    /\ Len(built) = 2
    /\ built[1].order # built[2].order
    /\ Len(built[2].tree) = 3

(***************************************************************************)
(* The two heading extractions of markdown.ts on one source:               *)
(* extractHeadings, a regular expression over the text, and parseMarkdown, *)
(* where marked's lexer finds the headings.  A source is a sequence of     *)
(* lines; its text is the lines joined by newlines.                        *)
(***************************************************************************)
RECURSIVE JoinLines(_)
JoinLines(lines) ==
    IF lines = <<>> THEN <<>>
    ELSE IF Len(lines) = 1 THEN lines[1]
    ELSE lines[1] \o <<"\n">> \o JoinLines(Tail(lines))

\* String.prototype.trim
RECURSIVE TrimStart(_)
TrimStart(s) == IF s # <<>> /\ IsSpaceChar(Head(s)) THEN TrimStart(Tail(s)) ELSE s

RECURSIVE TrimEnd(_)
TrimEnd(s) ==
    IF s # <<>> /\ IsSpaceChar(s[Len(s)]) THEN TrimEnd(SubSeq(s, 1, Len(s) - 1)) ELSE s

Trim(s) == TrimEnd(TrimStart(s))

\* how many hashes, whitespace characters, characters other than a newline
\* and spaces follow one another from position p on
RECURSIVE HashRun(_, _)
HashRun(s, p) == IF p <= Len(s) /\ s[p] = "#" THEN 1 + HashRun(s, p + 1) ELSE 0

RECURSIVE SpaceRun(_, _)
SpaceRun(s, p) == IF p <= Len(s) /\ IsSpaceChar(s[p]) THEN 1 + SpaceRun(s, p + 1) ELSE 0

RECURSIVE LineRun(_, _)
LineRun(s, p) == IF p <= Len(s) /\ s[p] # "\n" THEN 1 + LineRun(s, p + 1) ELSE 0

RECURSIVE BlankRun(_, _)
BlankRun(s, p) == IF p <= Len(s) /\ s[p] = " " THEN 1 + BlankRun(s, p + 1) ELSE 0

ExtractIdUnhyphenated(text) == StripPunctuation(ToLowerCase(text))

\* lines 54-57: the id extractHeadings gives a heading text
ExtractId(text) == HyphenateSpaces(StripPunctuation(ToLowerCase(text)))

\* /^(#{1,6})\s+(.+)$/gm tried at position p: one to six hashes at the start
\* of a line, the longest run of whitespace (newlines included) that still
\* leaves a character for the group (at the end of the text the run gives
\* back its last characters), then the rest of that line
NoMatch == [ok |-> FALSE, level |-> 0, text |-> <<>>, end |-> 0]

MatchAt(content, p) ==
    LET hashes == HashRun(content, p)
        spaces == SpaceRun(content, p + hashes)
        q == p + hashes + spaces
    IN  IF ~(p = 1 \/ content[p - 1] = "\n") \/ hashes = 0 \/ hashes > 6 \/ spaces = 0
        THEN NoMatch
        ELSE IF q <= Len(content)
        THEN LET n == LineRun(content, q)
             IN  [ok |-> TRUE, level |-> hashes,
                  text |-> SubSeq(content, q, q + n - 1), end |-> q + n - 1]
        ELSE LET given == {k \in 1..(spaces - 1) : content[p + hashes + k] # "\n"}
             IN  IF given = {} THEN NoMatch
                 ELSE LET k == CHOOSE x \in given : \A y \in given : y <= x
                          n == LineRun(content, p + hashes + k)
                      IN  [ok |-> TRUE, level |-> hashes,
                           text |-> SubSeq(content, p + hashes + k, p + hashes + k + n - 1),
                           end |-> p + hashes + k + n - 1]

\* the while loop of extractHeadings: exec from lastIndex on
RECURSIVE ExecFrom(_, _)
ExecFrom(content, p) ==
    IF p > Len(content) THEN <<>>
    ELSE LET match == MatchAt(content, p)
         IN  IF match.ok
             THEN <<[level |-> match.level, text |-> Trim(match.text),
                     id |-> ExtractId(Trim(match.text))]>>
                  \o ExecFrom(content, match.end + 1)
             ELSE ExecFrom(content, p + 1)

ExtractHeadings(content) == ExecFrom(content, 1)

\* marked's lexer, line by line.  A line of three tildes opens a fenced
\* code block that runs to the next such line or to the end; outside a
\* fence, a line of up to three spaces, one to six hashes and then
\* whitespace or the end of the line is a heading, whose text is the rest of
\* the line, trimmed, without a closing run of hashes that follows a space
\* or is all there is
IsFence(line) == Trim(line) = <<"~", "~", "~">>

AtxIndent(line) == BlankRun(line, 1)

AtxHashes(line) == HashRun(line, AtxIndent(line) + 1)

IsAtxHeading(line) ==
    LET after == AtxIndent(line) + AtxHashes(line) + 1
    IN  /\ AtxIndent(line) <= 3
        /\ AtxHashes(line) >= 1
        /\ AtxHashes(line) <= 6
        /\ (after > Len(line) \/ IsSpaceChar(line[after]))

RECURSIVE TrimHashes(_)
TrimHashes(s) == IF s # <<>> /\ s[Len(s)] = "#" THEN TrimHashes(SubSeq(s, 1, Len(s) - 1)) ELSE s

AtxText(line) ==
    LET text == Trim(SubSeq(line, AtxIndent(line) + AtxHashes(line) + 1, Len(line)))
        trimmed == TrimHashes(text)
    IN  IF text # <<>> /\ text[Len(text)] = "#"
           /\ (trimmed = <<>> \/ trimmed[Len(trimmed)] = " ")
        THEN Trim(trimmed)
        ELSE text

RECURSIVE Lexer(_, _)
Lexer(lines, inFence) ==
    IF lines = <<>> THEN <<>>
    ELSE LET line == Head(lines)
         IN  IF IsFence(line) THEN Lexer(Tail(lines), ~inFence)
             ELSE IF inFence THEN Lexer(Tail(lines), TRUE)
             ELSE IF IsAtxHeading(line)
             THEN <<HeadingToken(AtxHashes(line), AtxText(line))>> \o Lexer(Tail(lines), FALSE)
             ELSE <<ParagraphToken>> \o Lexer(Tail(lines), FALSE)

\* parseMarkdown: the array emptied, one push per heading token, a copy returned
RECURSIVE PushHeadings(_, _)
PushHeadings(tokens, h) ==
    IF tokens = <<>> THEN h
    ELSE PushHeadings(Tail(tokens),
                      IF Head(tokens).type = "heading"
                      THEN Append(h, HeadingOf(Head(tokens))) ELSE h)

ParseMarkdownHeadings(lines) == PushHeadings(Lexer(lines, FALSE), ResetHeadings(<<>>))

\* the lines of the model: a heading with punctuation and two spaces, one
\* with a closing hash, a bare hash, an indented heading, text, a fence
SourceLines ==
    { <<"#", " ", "A", " ", " ", "b", "!">>,
      <<"#", "#", " ", "b", " ", "#">>,
      <<"#">>,
      <<" ", "#", " ", "A">>,
      <<"b">>,
      <<"~", "~", "~">> }

MarkdownSources == UNION { [1..n -> SourceLines] : n \in 0..MaxLines }

InitHeadings ==
    /\ source \in MarkdownSources
    /\ extracted = NoHeadings
    /\ rendered = NoHeadings
    /\ AssetIdle
    /\ TreeIdle
    /\ ProcIdle
    /\ InitSse
    /\ watcher = "null"
    /\ ctx = DirContext
    /\ fs = InitFs
    /\ req = IdleReq
    /\ access = <<>>
    /\ RenderIdle
    /\ WatcherIdle
    /\ DownIdle
    /\ ClientIdle

\* extractHeadings(content)
Extract ==
    /\ ~extracted.done
    /\ extracted' = [done |-> TRUE, list |-> ExtractHeadings(JoinLines(source))]
    /\ UNCHANGED <<source, rendered>>
    /\ UNCHANGED outsideSlug

\* parseMarkdown(content).headings
Render ==
    /\ ~rendered.done
    /\ rendered' = [done |-> TRUE, list |-> ParseMarkdownHeadings(source)]
    /\ UNCHANGED <<source, extracted>>
    /\ UNCHANGED outsideSlug

NextHeadings ==
    \/ Extract
    \/ Render

SpecHeadings == InitHeadings /\ [][NextHeadings]_vars

(***************************************************************************)
(* Claims about the two heading extractions.                               *)
(***************************************************************************)
\* the id the text describes, in one pass: letters in lower case, a
\* character that is no word character, whitespace or hyphen left out, a run
\* of whitespace (what is left out once removed) written as one hyphen
RECURSIVE SlugFrom(_, _)
SlugFrom(text, afterSpace) ==
    IF text = <<>> THEN <<>>
    ELSE LET c == LowerChar(Head(text))
         IN  IF c \in {" ", "\t", "\n"}
             THEN (IF afterSpace THEN <<>> ELSE <<"-">>) \o SlugFrom(Tail(text), TRUE)
             ELSE IF IsWordChar(c) \/ c = "-"
             THEN <<c>> \o SlugFrom(Tail(text), FALSE)
             ELSE SlugFrom(Tail(text), afterSpace)

Slug(text) == SlugFrom(text, FALSE)

HeadingTextA == <<"A", " ", " ", "b", "!">>

\* C28: a heading of the rendered list and a heading of the extracted list
\* with the same text have the same id, and that id is the text in lower
\* case, without the characters that are no word character, whitespace or
\* hyphen, with every run of whitespace as one hyphen.
C28_SameIdForSameText ==
    /\ \A i \in 1..Len(rendered.list) : rendered.list[i].id = Slug(rendered.list[i].text)
    /\ \A j \in 1..Len(extracted.list) : extracted.list[j].id = Slug(extracted.list[j].text)
    /\ \A i \in 1..Len(rendered.list) : \A j \in 1..Len(extracted.list) :
          rendered.list[i].text = extracted.list[j].text
              => rendered.list[i].id = extracted.list[j].id

C28_Witness ==
    /\ rendered.done
    /\ extracted.done
    /\ \E i \in 1..Len(rendered.list) : \E j \in 1..Len(extracted.list) :
          /\ rendered.list[i].text = HeadingTextA
          /\ extracted.list[j].text = HeadingTextA
          /\ rendered.list[i].id = <<"a", "-", "b">>
          /\ extracted.list[j].id = <<"a", "-", "b">>

\* C29: for every source, extractHeadings returns the list of headings
\* (levels, texts, ids, order) that the render of the same source returns.
C29_ExtractedEqualsRendered ==
    (extracted.done /\ rendered.done) => extracted.list = rendered.list

(***************************************************************************)
(* The process: the CLI action builds the context, createServer starts the *)
(* watcher when options.watch is set, the server listens and the process   *)
(* handlers are registered.  The file watch may then report a fault.       *)
(***************************************************************************)
\* the contexts the CLI action builds (lines 21-37): a directory, or a file
\* with its basename as the target
CliContexts == {c \in Contexts : c.mode = "directory" \/ c.targetPath = <<"a">>}

\* the error codes a watch that cannot be set up, or that breaks, is reported
\* with on the handle's 'error' event
WatchFaults == {"EMFILE", "ENOSPC"}

Signals == {"SIGINT", "SIGTERM", "SIGHUP"}

Endpoints == {"info", "tree", "content"}

\* start() registers 'add', 'change' and 'unlink' on the handle
HandleListeners == {"add", "change", "unlink"}

\* emit('error') on an emitter without an 'error' listener throws
Throws(eventName) == eventName = "error" /\ eventName \notin HandleListeners

Running == proc.state \in {"created", "listening"}

InitProcess ==
    /\ ctx \in CliContexts
    /\ proc \in { [state |-> "starting", watch |-> w, handlers |-> FALSE,
                   fault |-> "none", code |-> -1] : w \in BOOLEAN }
    /\ served = <<>>
    /\ InitSse
    /\ watcher = "null"
    /\ fs = InitFs
    /\ req = IdleReq
    /\ access = <<>>
    /\ RenderIdle
    /\ WatcherIdle
    /\ AssetIdle
    /\ TreeIdle
    /\ SlugIdle
    /\ DownIdle
    /\ ClientIdle

\* createServer: with options.watch a FileWatcher is made and started
CreateServer ==
    /\ proc.state = "starting"
    /\ IF proc.watch
       THEN /\ watcher' = "FileWatcher"
            /\ handles' = Watch(handles, fsWatcher, FreshHandle)
            /\ fsWatcher' = FreshHandle
       ELSE UNCHANGED <<watcher, handles, fsWatcher>>
    /\ proc' = [proc EXCEPT !.state = "created"]
    /\ UNCHANGED <<ctx, served>>
    /\ UNCHANGED outsideProc

\* app.listen and what follows it in the action: the signal handlers and
\* the uncaughtException and unhandledRejection handlers are registered
Listen ==
    /\ proc.state = "created"
    /\ proc' = [proc EXCEPT !.state = "listening", !.handlers = TRUE]
    /\ UNCHANGED <<ctx, served, watcher, handles, fsWatcher>>
    /\ UNCHANGED outsideProc

\* cleanup(): watcher.stop() closes the handle, then app.close()
AfterCleanupHandles == [h \in Handles |-> IF h = fsWatcher THEN "closed" ELSE handles[h]]

\* process.exit(code)
Exit(p, code) == [p EXCEPT !.state = "exited", !.code = code]

\* the handle emits 'error': nothing listens for it, the emit throws, and
\* the exception is uncaught.  With the handlers registered, the handler
\* cleans up and exits with 1; before that the runtime ends the process
WatchError(fault) ==
    /\ Running
    /\ Started
    /\ proc.fault = "none"
    /\ IF Throws("error")
       THEN /\ proc' = Exit([proc EXCEPT !.fault = fault], 1)
            /\ IF proc.handlers
               THEN /\ handles' = AfterCleanupHandles
                    /\ fsWatcher' = 0
               ELSE UNCHANGED <<handles, fsWatcher>>
       ELSE /\ proc' = [proc EXCEPT !.fault = fault]
            /\ UNCHANGED <<handles, fsWatcher>>
    /\ UNCHANGED <<ctx, served, watcher>>
    /\ UNCHANGED outsideProc

\* shutdown(signal): cleanup, then process.exit(0)
Shutdown(signal) ==
    /\ proc.state = "listening"
    /\ proc' = Exit(proc, 0)
    /\ IF HasWatcher(fsWatcher)
       THEN /\ handles' = AfterCleanupHandles
            /\ fsWatcher' = 0
       ELSE UNCHANGED <<handles, fsWatcher>>
    /\ UNCHANGED <<ctx, served, watcher>>
    /\ UNCHANGED outsideProc

\* a request to /api/info, /api/tree or /api/content is answered while the
\* server listens
Answer(endpoint) ==
    /\ proc.state = "listening"
    /\ Len(served) < MaxRequests
    /\ served' = Append(served, [endpoint |-> endpoint, fault |-> proc.fault])
    /\ UNCHANGED <<ctx, proc, watcher, handles, fsWatcher>>
    /\ UNCHANGED outsideProc

NextProcess ==
    \/ CreateServer
    \/ Listen
    \/ \E fault \in WatchFaults : WatchError(fault)
    \/ \E signal \in Signals : Shutdown(signal)
    \/ \E endpoint \in Endpoints : Answer(endpoint)

SpecProcess == InitProcess /\ [][NextProcess]_vars

\* C30: when the file watch reports a fault, the process keeps running, and
\* the info, tree and content endpoints can still be answered.
C30_WatchFaultLosesOnlyReload ==
    proc.fault # "none" =>
        /\ proc.state # "exited"
        /\ (proc.state = "listening" /\ Len(served) < MaxRequests
                => \A endpoint \in Endpoints : ENABLED Answer(endpoint))

(***************************************************************************)
(* Shutdown.  The CLI action has run: the server listens, the signal       *)
(* handlers and the uncaughtException and unhandledRejection handlers are  *)
(* registered.  Each handler is an async function; it is suspended at the  *)
(* awaits of cleanup() and resumed when what it awaits has settled, calls  *)
(* that wait for the same thing in the order they began to wait.           *)
(***************************************************************************)
Faults == {"uncaughtException", "unhandledRejection"}

\* process.exit(0) in shutdown, process.exit(1) in the two fault handlers
CodeOf(cause) == IF cause \in Signals THEN 0 ELSE 1

Cleanups == 1..Len(cleanups)

\* the first of the calls suspended at one await is the next to resume there
NextToResume(i, pc) ==
    /\ i \in Cleanups
    /\ cleanups[i].pc = pc
    /\ \A j \in Cleanups : j < i => cleanups[j].pc # pc

\* close() on the handle: an open handle starts closing
AfterClose(hs, h) == [hs EXCEPT ![h] = IF hs[h] = "open" THEN "closing" ELSE hs[h]]

\* app.close()
AfterAppClose(a) == IF a = "listening" THEN "closing" ELSE a

InitShutdown ==
    /\ isShuttingDown = FALSE
    /\ cleanups = <<>>
    /\ app = "listening"
    /\ exitCode = -1
    /\ watcher \in {"null", "FileWatcher"}
    /\ fsWatcher = IF watcher = "FileWatcher" THEN 1 ELSE 0
    /\ handles = [h \in Handles |-> IF h = 1 /\ watcher = "FileWatcher" THEN "open" ELSE "unused"]
    /\ stops = [s \in StopCalls |-> IdleStop]
    /\ lastChange = NoChange
    /\ quiet = FALSE
    /\ InitSse
    /\ ctx = DirContext
    /\ fs = InitFs
    /\ req = IdleReq
    /\ access = <<>>
    /\ RenderIdle
    /\ AssetIdle
    /\ TreeIdle
    /\ SlugIdle
    /\ ProcIdle
    /\ ClientIdle

\* cleanup() up to its first await: with a watcher whose handle field is set,
\* stop() calls close() and waits; otherwise app.close() is called and
\* awaited
BeginCleanup(cause) ==
    IF watcher # "null" /\ HasWatcher(fsWatcher)
    THEN /\ handles' = AfterClose(handles, fsWatcher)
         /\ cleanups' = Append(cleanups, [cause |-> cause, pc |-> "stopping"])
         /\ app' = app
    ELSE /\ handles' = handles
         /\ cleanups' = Append(cleanups, [cause |-> cause, pc |-> "closing"])
         /\ app' = AfterAppClose(app)

\* if (isShuttingDown) return
Guard(flag) == flag

\* shutdown(signal)
Signal(signal) ==
    /\ exitCode = -1
    /\ Len(cleanups) < MaxTriggers
    /\ IF Guard(isShuttingDown)
       THEN UNCHANGED <<isShuttingDown, cleanups, app, handles>>
       ELSE /\ isShuttingDown' = TRUE
            /\ BeginCleanup(signal)
    /\ UNCHANGED <<exitCode, fsWatcher>>
    /\ UNCHANGED outsideDown

\* the uncaughtException and unhandledRejection handlers
Fault(kind) ==
    /\ exitCode = -1
    /\ Len(cleanups) < MaxTriggers
    /\ BeginCleanup(kind)
    /\ UNCHANGED <<isShuttingDown, exitCode, fsWatcher>>
    /\ UNCHANGED outsideDown

\* the handle has closed: stop() sets the field to null and returns, and
\* cleanup() goes on to app.close()
CleanupStopped(i) ==
    /\ exitCode = -1
    /\ NextToResume(i, "stopping")
    /\ handles' = [h \in Handles |-> IF handles[h] = "closing" THEN "closed" ELSE handles[h]]
    /\ fsWatcher' = 0
    /\ app' = AfterAppClose(app)
    /\ cleanups' = [cleanups EXCEPT ![i].pc = "closing"]
    /\ UNCHANGED <<isShuttingDown, exitCode>>
    /\ UNCHANGED outsideDown

\* the server has closed: cleanup() returns and the handler calls
\* process.exit
CleanupClosed(i) ==
    /\ exitCode = -1
    /\ NextToResume(i, "closing")
    /\ app' = "closed"
    /\ cleanups' = [cleanups EXCEPT ![i].pc = "exited"]
    /\ exitCode' = CodeOf(cleanups[i].cause)
    /\ UNCHANGED <<isShuttingDown, handles, fsWatcher>>
    /\ UNCHANGED outsideDown

NextShutdown ==
    \/ \E signal \in Signals : Signal(signal)
    \/ \E kind \in Faults : Fault(kind)
    \/ \E i \in 1..MaxTriggers : CleanupStopped(i)
    \/ \E i \in 1..MaxTriggers : CleanupClosed(i)

SpecShutdown == InitShutdown /\ [][NextShutdown]_vars

(***************************************************************************)
(* Claims about shutdown.                                                  *)
(***************************************************************************)
FaultSeen == \E i \in Cleanups : cleanups[i].cause \in Faults

\* C31: after an uncaught exception or unhandled rejection the watcher is
\* stopped before the server is closed, the server is closed before the
\* process exits, and the exit status is not zero, also when a shutdown by
\* signal was under way.
C31_FaultExitsNonZeroAfterCleanup ==
    /\ app # "listening" => \A h \in Handles : handles[h] # "open"
    /\ exitCode # -1 => app = "closed"
    /\ (FaultSeen /\ exitCode # -1) => exitCode # 0

\* C39: cleanup is started at most once in the life of the process.
C39_CleanupStartedOnce == Len(cleanups) <= 1

(***************************************************************************)
(* The browser client (public/app.js).  The page is open in directory      *)
(* mode: init() has fetched the info and the tree and called setupSSE.     *)
(* Fetches are answered in any order; an EventSource that loses its stream *)
(* retries by itself unless the failure is fatal.                          *)
(***************************************************************************)
ClientFiles == {NameAMd, NameBMd}

EventTypes == {"add", "change", "unlink"}

EventSources == 1..MaxSources

Loads == 1..Len(loads)

InitClient ==
    /\ currentFile = <<>>
    /\ shown = NoPane
    /\ loads = <<>>
    /\ eventSources = [e \in EventSources |-> IF e = 1 THEN "connecting" ELSE "none"]
    /\ eventSource = 1
    /\ timers = 0
    /\ lastMsg = NoMsg
    /\ InitSse
    /\ watcher = "FileWatcher"
    /\ ctx = DirContext
    /\ fs = InitFs
    /\ req = IdleReq
    /\ access = <<>>
    /\ RenderIdle
    /\ WatcherIdle
    /\ AssetIdle
    /\ TreeIdle
    /\ SlugIdle
    /\ ProcIdle
    /\ DownIdle

\* loadFile(filePath) up to its first await: the fetch is issued
LoadFile(ls, filePath, cause) ==
    Append(ls, [file |-> filePath, cause |-> cause, pc |-> "fetching", ok |-> FALSE])

\* item.onclick = () => loadFile(node.path)
Click(filePath) ==
    /\ Len(SelectSeq(loads, LAMBDA l : l.cause = "click")) < MaxLoads
    /\ loads' = LoadFile(loads, filePath, "click")
    /\ UNCHANGED <<currentFile, shown, eventSources, eventSource, timers, lastMsg>>
    /\ UNCHANGED outsideClient

\* loadFile after its awaits: an answer that is not ok, or a failed fetch,
\* puts an error in the pane and returns; an ok answer sets currentFile and
\* puts the file's html in the pane
Answered(i, ok) ==
    /\ i \in Loads
    /\ loads[i].pc = "fetching"
    /\ loads' = [loads EXCEPT ![i].pc = "done", ![i].ok = ok]
    /\ IF ok
       THEN /\ currentFile' = loads[i].file
            /\ shown' = [kind |-> "content", file |-> loads[i].file]
       ELSE /\ currentFile' = currentFile
            /\ shown' = [kind |-> "error", file |-> loads[i].file]
    /\ UNCHANGED <<eventSources, eventSource, timers, lastMsg>>
    /\ UNCHANGED outsideClient

\* what the fileChange handler does with a message
Reaction(type, file) ==
    IF type = "change" /\ file = currentFile THEN "content"
    ELSE IF type = "add" \/ type = "unlink" THEN "tree"
    ELSE "none"

\* the fileChange listener of an open EventSource
FileChangeMessage(e, type, file) ==
    /\ eventSources[e] = "open"
    /\ lastMsg.seen < MaxMessages
    /\ loads' = IF Reaction(type, file) = "content"
                THEN LoadFile(loads, currentFile, "fileChange")
                ELSE loads
    /\ lastMsg' = [seen |-> lastMsg.seen + 1, type |-> type, file |-> file,
                   current |-> currentFile, pane |-> shown, did |-> Reaction(type, file)]
    /\ UNCHANGED <<currentFile, shown, eventSources, eventSource, timers>>
    /\ UNCHANGED outsideClient

\* the stream of an EventSource is established
Connected(e) ==
    /\ eventSources[e] = "connecting"
    /\ eventSources' = [eventSources EXCEPT ![e] = "open"]
    /\ UNCHANGED <<currentFile, shown, loads, eventSource, timers, lastMsg>>
    /\ UNCHANGED outsideClient

\* the stream fails: the EventSource is closed when the failure is fatal and
\* retries otherwise; onerror sets the reconnect timer
StreamError(e, fatal) ==
    /\ eventSources[e] \in {"connecting", "open"}
    /\ timers < MaxSources
    /\ eventSources' = [eventSources EXCEPT ![e] = IF fatal THEN "closed" ELSE "connecting"]
    /\ timers' = timers + 1
    /\ UNCHANGED <<currentFile, shown, loads, eventSource, lastMsg>>
    /\ UNCHANGED outsideClient

\* setTimeout(setupSSE, 3000) fires: setupSSE makes a new EventSource
SetupSSE ==
    /\ timers > 0
    /\ \E e \in EventSources : eventSources[e] = "none"
    /\ LET new == CHOOSE e \in EventSources :
                      /\ eventSources[e] = "none"
                      /\ \A d \in EventSources : d < e => eventSources[d] # "none"
       IN  /\ eventSources' = [eventSources EXCEPT ![new] = "connecting"]
           /\ eventSource' = new
    /\ timers' = timers - 1
    /\ UNCHANGED <<currentFile, shown, loads, lastMsg>>
    /\ UNCHANGED outsideClient

NextClient ==
    \/ \E filePath \in ClientFiles : Click(filePath)
    \/ \E i \in 1..(MaxLoads + MaxMessages) : \E ok \in BOOLEAN : Answered(i, ok)
    \/ \E e \in EventSources : \E type \in EventTypes : \E file \in ClientFiles :
          FileChangeMessage(e, type, file)
    \/ \E e \in EventSources : Connected(e)
    \/ \E e \in EventSources : \E fatal \in BOOLEAN : StreamError(e, fatal)
    \/ SetupSSE

SpecClient == InitClient /\ [][NextClient]_vars

(***************************************************************************)
(* Claims about the browser client.                                        *)
(***************************************************************************)
\* the pane shows the content of this file
Displays(pane, file) == pane.kind = "content" /\ pane.file = file

\* C33: on a fileChange message the client fetches the content exactly when
\* the message is a change of the file the pane displays, fetches the tree
\* exactly when it is an add or an unlink, and fetches nothing otherwise.
C33_RefetchWhatChanged ==
    lastMsg.seen > 0 =>
        /\ lastMsg.did = "content" <=>
              (lastMsg.type = "change" /\ Displays(lastMsg.pane, lastMsg.file))
        /\ lastMsg.did = "tree" <=> lastMsg.type \in {"add", "unlink"}

LiveSources == {e \in EventSources : eventSources[e] \in {"connecting", "open"}}

\* C37: at most one EventSource of the client is open or connecting.
C37_OneLiveStream == Cardinality(LiveSources) <= 1

\* C38: when no loadFile call is in flight and the call issued last was
\* answered with a file, currentFile and the pane are that call's file.
C38_LastLoadWins ==
    (/\ loads # <<>>
     /\ \A i \in Loads : loads[i].pc = "done"
     /\ loads[Len(loads)].ok)
        => /\ currentFile = loads[Len(loads)].file
           /\ Displays(shown, loads[Len(loads)].file)

(***************************************************************************)
(* The tree endpoint and the content endpoint over the same filesystem, in *)
(* directory mode.  The filesystem does not change; the content endpoint   *)
(* is asked for entries that are on disk.                                  *)
(***************************************************************************)
DirGitAtRoot == <<"/", "r", "/", ".", "g", "i", "t">>

NameTwoDots == <<"a", ".", ".", "m", "d">>

\* what may be on disk: at the root the files a.md, a..md and n.txt and the
\* directories d and .git; B.MD in d; a.md and n.txt in .git
AgreeCandidates ==
    { Entry(Root, NameAMd, "file", 1),
      Entry(Root, NameTwoDots, "file", 2),
      Entry(Root, NameTxt, "file", 3),
      Entry(Root, <<"d">>, "dir", 4),
      Entry(Root, <<".", "g", "i", "t">>, "dir", 5),
      Entry(DirD, NameBMd, "file", 6),
      Entry(DirGitAtRoot, NameAMd, "file", 7),
      Entry(DirGitAtRoot, NameTxt, "file", 8) }

AgreeDisks ==
    {es \in SUBSET AgreeCandidates : Cardinality(es) <= MaxEntries /\ ParentClosed(es)}

\* the filesystem as stat and readFile see it
FsOf(es) ==
    [path \in {Root} \cup {EntryPath(e) : e \in es} |->
        IF path = Root THEN "dir"
        ELSE (CHOOSE e \in es : EntryPath(e) = path).kind]

\* ?file=<the path of an entry, relative to the root>
QueryFor(e) == [given |-> TRUE, value |-> Relative(Root, EntryPath(e))]

InitAgree ==
    /\ disk \in AgreeDisks
    /\ listing = "forward"
    /\ built = <<>>
    /\ ctx = DirContext
    /\ fs = FsOf(disk)
    /\ req = IdleReq
    /\ access = <<>>
    /\ InitSse
    /\ watcher = "null"
    /\ RenderIdle
    /\ WatcherIdle
    /\ AssetIdle
    /\ SlugIdle
    /\ ProcIdle
    /\ DownIdle
    /\ ClientIdle

NextAgree ==
    \/ BuildTree
    \/ \E e \in disk : Request(QueryFor(e))
    \/ StatSettles
    \/ ReadSettles
    \/ Finish

SpecAgree == InitAgree /\ [][NextAgree]_vars

\* the file nodes of a tree
FileNodes(tree) == {n \in AllNodes(tree) : n.type = "file"}

\* C34: for every file node of a tree the tree endpoint returned, a content
\* request with `file` equal to the node's path is answered 200 with the
\* text of that file.
C34_TreePathsAreServed ==
    \A i \in 1..Len(built) : \A n \in FileNodes(built[i].tree) :
        (req.pc = "done" /\ req.query.value = n.path)
            => /\ req.status = 200
               /\ req.raw = TextOf(Root \o <<"/">> \o n.path)

\* C35: a content request is answered 200 only when `file` is the path of a
\* file node of the tree that the tree endpoint would return.
C35_ServedOnlyTreeFiles ==
    (req.pc = "done" /\ req.status = 200)
        => \E n \in FileNodes(BuildFileTree(ctx.basePath, ctx.basePath)) :
              n.path = req.query.value

(***************************************************************************)
(* A claim about every interleaving of start() and stop() (SpecWatcher).   *)
(***************************************************************************)
\* C36: whenever this.watcher is null no watch handle is open, and an open
\* handle is always the one this.watcher refers to.
C36_FieldTracksOpenHandle ==
    /\ fsWatcher = 0 => \A h \in Handles : handles[h] # "open"
    /\ \A h \in Handles : handles[h] = "open" => fsWatcher = h

====
